---- MODULE Spec2Model ----
(***************************************************************************)
(* Model of the path tracing renderer of ptrace/oop: Renderer.render,      *)
(* Renderer.radiance (with RadianceSampler and Material.sample),           *)
(* Scene.intersect_ex, AccumulableImage and Renderer.generate_tiles.       *)
(*                                                                         *)
(* Abstractions.  A Vec3 is a triple of integers (the colour arithmetic    *)
(* used by the renderer is component-wise).  A ray is identified with the  *)
(* result of Primitive.intersect on each primitive of the scene: ray[k] is *)
(* the hit distance on primitive k, or NoHit when intersect returns None.  *)
(* random.random() is a choice from a small set; only the draws that       *)
(* decide control flow keep their value, all of them are counted.          *)
(*                                                                         *)
(* AccumulableImage (add_samples, reads, merges, two callers on one        *)
(* image) and the single calls of Scene.intersect_ex, Sphere.intersect,    *)
(* Triangle.intersect and Material.sample have specifications of their     *)
(* own (ImagesSpec, MergeSpec, WorkersSpec, CallsSpec).  There the         *)
(* geometry is exact: points are integer vectors, directions run along the *)
(* axes, quotients are kept as fractions and unit vectors as a direction   *)
(* with the square of its length.                                          *)
(*                                                                         *)
(* Three more specifications follow objects rather than values: AliasSpec  *)
(* is a render in which radiance passes references to Vec3 objects (those  *)
(* of the scene, or vectors on heap), VectorsSpec is the Vec3 operators on *)
(* arrays with identity, and DrawsSpec is the sequence of random draws of  *)
(* one ray, one draw a step.                                               *)
(***************************************************************************)
EXTENDS Integers, Sequences, FiniteSets, TLC

VARIABLES params, scene, pc, sample, pix, output, stack, last, raised,
          targs, tiles, tpc,
          imgs, ilog, ilast, shared, sequential, workers, call,
          heap, frames

vars == <<params, scene, pc, sample, pix, output, stack, last, raised,
          targs, tiles, tpc,
          imgs, ilog, ilast, shared, sequential, workers, call,
          heap, frames>>

renderVars == <<params, scene, pc, sample, pix, output, stack, last, raised>>
tileVars == <<targs, tiles, tpc>>
imageVars == <<imgs, ilog, ilast>>
workerVars == <<shared, sequential, workers>>
aliasVars == <<heap, frames>>
extVars == <<imgs, ilog, ilast, shared, sequential, workers, call, heap, frames>>

----------------------------------------------------------------------------
(* Bounds of the model *)

MaxDim == 2
MaxSamples == 2
MaxDepth == 2
MaxBounce == 2
MaxDist == 2
MaxTileDim == 3
MaxTileSize == 2
MaxTileSamples == 2
MaxSeed == 2
RandMod == 3
MaxCount == 2
MaxAdds == 3
MaxMerges == 2
MaxCalls == 2
MaxPrims == 3
MaxCoord == 2
MaxRadius == 2

----------------------------------------------------------------------------
(* Helpers: Python builtins *)

Min(a, b) == IF a < b THEN a ELSE b

\* range(0, n)
Range(n) == [i \in 1..n |-> i - 1]

\* range(0, n, step)
RangeStep(n, step) == [i \in 1..((n + step - 1) \div step) |-> (i - 1) * step]

\* zip(s, t): pairs position by position, as long as the shorter one
Zip(s, t) == [i \in 1..Min(Len(s), Len(t)) |-> <<s[i], t[i]>>]

----------------------------------------------------------------------------
(* Vec3 *)

Vec3Zero == <<0, 0, 0>>

VAdd(a, b) == <<a[1] + b[1], a[2] + b[2], a[3] + b[3]>>

\* Vec3 * Vec3 is component-wise
VMul(a, b) == <<a[1] * b[1], a[2] * b[2], a[3] * b[3]>>

VScale(a, s) == <<a[1] * s, a[2] * s, a[3] * s>>

VSub(a, b) == <<a[1] - b[1], a[2] - b[2], a[3] - b[3]>>

VNeg(a) == <<-a[1], -a[2], -a[3]>>

Dot(a, b) == a[1] * b[1] + a[2] * b[2] + a[3] * b[3]

Cross(a, b) == <<a[2] * b[3] - a[3] * b[2],
                 a[3] * b[1] - a[1] * b[3],
                 a[1] * b[2] - a[2] * b[1]>>

\* math.sqrt on the squares of integers (the calls below are made on
\* arguments on which it is exact)
ISqrt(n) == CHOOSE k \in 0..n : k * k <= n /\ (k + 1) * (k + 1) > n

IsSquare(n) == n >= 0 /\ ISqrt(n) * ISqrt(n) = n

\* Vec3.normalised: self / self.length(), kept as the vector num with the
\* square sqr of its length: the unit vector num / sqrt(sqr).  A zero vector
\* gives 0 / 0.0, which numpy evaluates to nan in every component: that is
\* the case sqr = 0.
normalised(v) == [num |-> v, sqr |-> Dot(v, v)]

IsNan(n) == n.sqr = 0

\* -normal
FNeg(n) == [num |-> VNeg(n.num), sqr |-> n.sqr]

\* normal.dot(v) > 0.0, < 0.0 and <= 0.0; every comparison with nan is false
FDotPositive(n, v) == ~IsNan(n) /\ Dot(n.num, v) > 0
FDotNegative(n, v) == ~IsNan(n) /\ Dot(n.num, v) < 0
FDotNotPositive(n, v) == ~IsNan(n) /\ Dot(n.num, v) <= 0

\* Equality of two unit vectors
FEq(n, m) ==
    /\ ~IsNan(n)
    /\ ~IsNan(m)
    /\ Cross(n.num, m.num) = Vec3Zero
    /\ Dot(n.num, m.num) > 0

\* Equality of a unit vector with a vector
FEqVec(n, v) == FEq(n, normalised(v)) /\ Dot(v, v) = 1

----------------------------------------------------------------------------
(* Materials.  reflectivity and probabilities are in percent, the          *)
(* refraction index in tenths.                                             *)

MaterialData(emission, diffuse, refraction_index, reflectivity) ==
    [emission |-> emission, diffuse |-> diffuse,
     refraction_index |-> refraction_index, reflectivity |-> reflectivity]

make_diffuse(colour) == MaterialData(Vec3Zero, colour, 10, -100)

make_reflective(colour, reflectivity) == MaterialData(Vec3Zero, colour, 10, reflectivity)

material_from_data(md) ==
    [kind |-> IF md.reflectivity >= 0 THEN "shiny" ELSE "matte", material_data |-> md]

\* Variant: the emission is returned in place of the diffuse colour
preview_colour_emission(material) == material.material_data.emission

preview_colour(material) == material.material_data.diffuse

\* The methods class Material and its subclasses define
MaterialMethods == {"preview_colour", "total_emission", "sample"}

\* Values random.random() can take (percent); it never returns 1.0
RandomVals == {0, 50}

\* Values of Vec3.reflectance for a matte material: 0 when both refraction
\* indices are equal, otherwise between a small value and total reflection
ReflectanceVals(md) == IF md.refraction_index = 10 THEN {0} ELSE {4, 100}

\* MatteMaterial.sample / ShinyMaterial.sample: the branch taken
SampleBranch(material, prob, reflectance) ==
    IF material.kind = "shiny"
    THEN IF prob < material.material_data.reflectivity THEN "specular" ELSE "diffuse"
    ELSE IF prob < reflectance THEN "specular" ELSE "diffuse"

\* Variant: the diffuse colour multiplies the radiance in both branches
SampleResultTinted(material, branch, radiance) ==
    VMul(material.material_data.diffuse, radiance)

\* What sample returns, given what the radiance sampler returned
SampleResult(material, branch, radiance) ==
    IF branch = "specular" THEN radiance
    ELSE VMul(material.material_data.diffuse, radiance)

----------------------------------------------------------------------------
(* Scene *)

NoHit == 0

InfDist == MaxDist + 1

Primitive(md) == [material |-> material_from_data(md)]

SphereScene ==
    [environment_colour |-> Vec3Zero,
     primitives |-> <<Primitive(make_diffuse(<<2, 2, 2>>))>>]

MixedScene ==
    [environment_colour |-> <<1, 1, 2>>,
     primitives |-> <<Primitive(make_reflective(<<2, 3, 4>>, 50)),
                      Primitive(MaterialData(<<8, 8, 8>>, <<1, 0, 1>>, 13, -100))>>]

Scenes == {SphereScene, MixedScene}

Rays(sc) == [1..Len(sc.primitives) -> {NoHit} \cup (1..MaxDist)]

\* Variant: the result of intersect is not tested before it is wrapped
PrimitiveIntersectExUnchecked(k, ray) ==
    [hit |-> TRUE, distance |-> ray[k], prim |-> k]

\* Primitive.intersect_ex: None (hit = FALSE) when intersect returns None
PrimitiveIntersectEx(k, ray) ==
    IF ray[k] = NoHit THEN [hit |-> FALSE, distance |-> InfDist, prim |-> 0]
    ELSE [hit |-> TRUE, distance |-> ray[k], prim |-> k]

\* Variant: a hit at the distance of the result replaces it
NearerOrEqual(hit, result) == hit.hit /\ hit.distance <= result.distance

\* The test of the scan: a hit, and nearer than the result so far
Nearer(hit, result) == hit.hit /\ hit.distance < result.distance

RECURSIVE ScanPrimitives(_, _, _, _)
ScanPrimitives(sc, ray, k, result) ==
    IF k > Len(sc.primitives) THEN result
    ELSE LET hit == PrimitiveIntersectEx(k, ray)
         IN  ScanPrimitives(sc, ray, k + 1,
                 IF Nearer(hit, result) THEN hit ELSE result)

\* Scene.intersect_ex: the record of the nearest hit, hit = FALSE for None
SceneIntersectEx(sc, ray) ==
    LET result == ScanPrimitives(sc, ray, 1,
                      [hit |-> FALSE, distance |-> InfDist, prim |-> 0])
    IN  IF result.distance = InfDist
        THEN [hit |-> FALSE, distance |-> InfDist, prim |-> 0]
        ELSE result

----------------------------------------------------------------------------
(* AccumulableImage *)

Pixels(w, h) == (0..(w - 1)) \X (0..(h - 1))

AccumulableImage(w, h) ==
    [width |-> w, height |-> h,
     image |-> [p \in Pixels(w, h) |-> Vec3Zero],
     sample_counts |-> [p \in Pixels(w, h) |-> 0]]

\* add_samples without the weighting by sample_count
add_samples_unweighted(img, x, y, colour, count) ==
    [img EXCEPT !.image[<<x, y>>] = VAdd(@, colour),
                !.sample_counts[<<x, y>>] = @ + count]

add_samples(img, x, y, colour, count) ==
    [img EXCEPT !.image[<<x, y>>] = VAdd(@, VScale(colour, count)),
                !.sample_counts[<<x, y>>] = @ + count]

RECURSIVE SumOver(_, _)
SumOver(f, S) ==
    IF S = {} THEN 0
    ELSE LET p == CHOOSE q \in S : TRUE IN f[p] + SumOver(f, S \ {p})

total_sample_count(img) == SumOver(img.sample_counts, DOMAIN img.sample_counts)

Max(a, b) == IF a > b THEN a ELSE b

\* AccumulableImage.__getitem__: the colour sum divided by max(1, count).
\* The quotient is kept as the fraction num / den.
getitem(img, pos) ==
    [num |-> img.image[pos], den |-> Max(1, img.sample_counts[pos])]

\* Equality of two quotients
FracEq(a, b) == VScale(a.num, b.den) = VScale(b.num, a.den)

\* the assert of __iadd__
SameSize(a, b) == a.width = b.width /\ a.height = b.height

\* __iadd__ that keeps the sample counts of self
iadd_sums_only(a, b) ==
    [a EXCEPT !.image = [p \in DOMAIN a.image |-> VAdd(a.image[p], b.image[p])]]

\* __iadd__ that keeps the colour sums of self
iadd_counts_only(a, b) ==
    [a EXCEPT !.sample_counts = [p \in DOMAIN a.sample_counts |->
                                    a.sample_counts[p] + b.sample_counts[p]]]

\* AccumulableImage.__iadd__ past its assert: the element-wise sums
iadd(a, b) ==
    [a EXCEPT !.image = [p \in DOMAIN a.image |-> VAdd(a.image[p], b.image[p])],
              !.sample_counts = [p \in DOMAIN a.sample_counts |->
                                    a.sample_counts[p] + b.sample_counts[p]]]

\* Colours of the samples (test_accimg_addition uses Vec3(0.1, 0.5, 0.9); the
\* components are counted in tenths)
ImgColours == {<<1, 5, 9>>, <<2, 0, 1>>}

NoOp == [op |-> "none", i |-> "none", j |-> "none", ok |-> TRUE, pos |-> <<0, 0>>,
         value |-> [num |-> Vec3Zero, den |-> 1], adds |-> 0, merges |-> 0]

\* img.add_samples(x, y, colour, sample_count) on image i; the call is
\* appended to the history of the image
AddSamples ==
    /\ ilast.adds < MaxAdds
    /\ \E i \in DOMAIN imgs : \E p \in DOMAIN imgs[i].image :
       \E colour \in ImgColours : \E count \in 0..MaxCount :
           /\ imgs' = [imgs EXCEPT ![i] = add_samples(@, p[1], p[2], colour, count)]
           /\ ilog' = [ilog EXCEPT ![i] = Append(@, [origin |-> i, pos |-> p,
                                                     colour |-> colour, count |-> count])]
           /\ ilast' = [NoOp EXCEPT !.op = "add_samples", !.i = i, !.pos = p,
                                    !.adds = ilast.adds + 1, !.merges = ilast.merges]
    /\ UNCHANGED <<renderVars, aliasVars, tileVars, workerVars, call>>

\* img[pos]
GetItem ==
    /\ ilast.op # "getitem"
    /\ \E i \in DOMAIN imgs : \E p \in DOMAIN imgs[i].image :
           ilast' = [NoOp EXCEPT !.op = "getitem", !.i = i, !.pos = p,
                                 !.value = getitem(imgs[i], p),
                                 !.adds = ilast.adds, !.merges = ilast.merges]
    /\ UNCHANGED <<imgs, ilog, renderVars, aliasVars, tileVars, workerVars, call>>

\* imgs[i] += imgs[j] on images of one size
IAdd ==
    /\ ilast.merges < MaxMerges
    /\ \E i, j \in DOMAIN imgs :
           /\ SameSize(imgs[i], imgs[j])
           /\ imgs' = [imgs EXCEPT ![i] = iadd(imgs[i], imgs[j])]
           /\ ilog' = [ilog EXCEPT ![i] = ilog[i] \o ilog[j]]
           /\ ilast' = [NoOp EXCEPT !.op = "iadd", !.i = i, !.j = j,
                                    !.adds = ilast.adds, !.merges = ilast.merges + 1]
    /\ UNCHANGED <<renderVars, aliasVars, tileVars, workerVars, call>>

\* imgs[i] += imgs[j] on images of different sizes: the assert fails before
\* either array is touched
IAddAssert ==
    /\ ilast.merges < MaxMerges
    /\ \E i, j \in DOMAIN imgs :
           /\ ~SameSize(imgs[i], imgs[j])
           /\ ilast' = [NoOp EXCEPT !.op = "iadd", !.i = i, !.j = j, !.ok = FALSE,
                                    !.adds = ilast.adds, !.merges = ilast.merges + 1]
    /\ UNCHANGED <<imgs, ilog, renderVars, aliasVars, tileVars, workerVars, call>>

----------------------------------------------------------------------------
(* Renderer.render and Renderer.radiance *)

\* The pixels the loop of render visits in one sampling pass
RenderPixels(p) == Zip(Range(p.width), Range(p.height))

\* The (u_ix, v_ix) cells the sampling loop of radiance visits
SampleCells(p, depth) ==
    LET u_samples == IF depth = 0 THEN p.first_bounce_u_samples ELSE 1
        v_samples == IF depth = 0 THEN p.first_bounce_v_samples ELSE 1
    IN  Zip(Range(u_samples), Range(v_samples))

\* Variant: the depth test is off by one
DepthLimitStrict(p, depth) == depth > p.max_depth

\* if depth >= self.params['max_depth']
DepthLimit(p, depth) == depth >= p.max_depth

\* A call of radiance in progress.  The ray of a call is drawn when the call
\* first reads it, at scene.intersect_ex; afterwards the call keeps the
\* primitive hit (material and hit record).
Frame(depth) ==
    [depth |-> depth, pc |-> "enter", intersected |-> FALSE,
     prim |-> 0, sampler_depth |-> 0, cell |-> 1, cells |-> <<>>,
     branch |-> "none", result |-> Vec3Zero, draws |-> 0]

NoCall == [kind |-> "none", ray |-> <<>>, depth |-> 0, value |-> Vec3Zero,
           intersected |-> FALSE, cells |-> <<>>, draws |-> 0]

Top == stack[Len(stack)]

Pop == SubSeq(stack, 1, Len(stack) - 1)

\* The call on top of the stack returns value: to material.sample and the
\* sampling loop of the calling radiance, or to add_samples in render
Return(fr, ray, kind, value) ==
    /\ last' = [kind |-> kind, ray |-> ray, depth |-> fr.depth, value |-> value,
                intersected |-> fr.intersected, cells |-> fr.cells, draws |-> fr.draws]
    /\ IF Len(stack) = 1
       THEN LET pos == RenderPixels(params)[pix]
            IN  /\ output' = add_samples(output, pos[1], pos[2], value, 1)
                /\ stack' = <<>>
                /\ IF pix < Len(RenderPixels(params))
                   THEN pix' = pix + 1 /\ sample' = sample
                   ELSE pix' = 1 /\ sample' = sample + 1
       ELSE LET caller == stack[Len(stack) - 1]
                material == scene.primitives[caller.prim].material
            IN  /\ stack' = [Pop EXCEPT ![Len(stack) - 1] =
                         [caller EXCEPT !.pc = "loop",
                                        !.result = VAdd(@, SampleResult(material, caller.branch, value)),
                                        !.branch = "none",
                                        !.cell = @ + 1]]
                /\ UNCHANGED <<output, pix, sample>>

\* render(): output = AccumulableImage(width, height), first pass
RenderBegin ==
    /\ pc = "idle"
    /\ pc' = "render"
    /\ output' = AccumulableImage(params.width, params.height)
    /\ sample' = 1
    /\ pix' = 1
    /\ UNCHANGED <<params, scene, stack, last, raised, tileVars, extVars>>

\* ray = self.camera.get_ray(x_pos, y_pos); self.radiance(ray, 0) is entered
CameraGetRay ==
    /\ pc = "render"
    /\ stack = <<>>
    /\ sample <= params.samples_per_pixel
    /\ stack' = <<Frame(0)>>
    /\ UNCHANGED <<params, scene, pc, sample, pix, output, last, raised, tileVars, extVars>>

\* all passes done: return output
RenderFinish ==
    /\ pc = "render"
    /\ stack = <<>>
    /\ sample > params.samples_per_pixel
    /\ pc' = "done"
    /\ UNCHANGED <<params, scene, sample, pix, output, stack, last, raised, tileVars, extVars>>

\* if depth >= max_depth: return Vec3()
RadianceLimit ==
    /\ pc = "render"
    /\ stack # <<>>
    /\ Top.pc = "enter"
    /\ DepthLimit(params, Top.depth)
    /\ Return(Top, <<>>, "limit", Vec3Zero)
    /\ UNCHANGED <<params, scene, pc, raised, tileVars, extVars>>

\* hit is None: return self.scene.environment_colour
RadianceMiss ==
    /\ pc = "render"
    /\ stack # <<>>
    /\ Top.pc = "enter"
    /\ ~DepthLimit(params, Top.depth)
    /\ \E ray \in Rays(scene) :
          /\ ~SceneIntersectEx(scene, ray).hit
          /\ Return([Top EXCEPT !.intersected = TRUE], ray, "miss",
                    scene.environment_colour)
    /\ UNCHANGED <<params, scene, pc, raised, tileVars, extVars>>

\* preview: return material.preview_colour()
RadiancePreview ==
    /\ pc = "render"
    /\ stack # <<>>
    /\ Top.pc = "enter"
    /\ ~DepthLimit(params, Top.depth)
    /\ \E ray \in Rays(scene) :
          LET hit == SceneIntersectEx(scene, ray)
          IN  /\ hit.hit
              /\ params.preview
              /\ Return([Top EXCEPT !.intersected = TRUE, !.prim = hit.prim], ray,
                        "preview", preview_colour(scene.primitives[hit.prim].material))
    /\ UNCHANGED <<params, scene, pc, raised, tileVars, extVars>>

\* a hit without preview: result = Vec3(); sampler = RadianceSampler(self, depth + 1)
RadianceHit ==
    /\ pc = "render"
    /\ stack # <<>>
    /\ Top.pc = "enter"
    /\ ~DepthLimit(params, Top.depth)
    /\ \E ray \in Rays(scene) :
          LET hit == SceneIntersectEx(scene, ray)
          IN  /\ hit.hit
              /\ ~params.preview
              /\ stack' = [stack EXCEPT ![Len(stack)] =
                     [@ EXCEPT !.pc = "loop", !.intersected = TRUE, !.prim = hit.prim,
                               !.sampler_depth = Top.depth + 1, !.cell = 1,
                               !.result = Vec3Zero]]
    /\ UNCHANGED <<params, scene, pc, sample, pix, output, last, raised, tileVars, extVars>>

\* one pass of the sampling loop up to the call of the radiance sampler inside
\* material.sample: three draws (u offset, v offset, prob), then the sampler
\* calls renderer.radiance(new ray, sampler.depth)
MaterialSample ==
    /\ pc = "render"
    /\ stack # <<>>
    /\ Top.pc = "loop"
    /\ Top.cell <= Len(SampleCells(params, Top.depth))
    /\ LET material == scene.primitives[Top.prim].material
       IN  \E prob \in RandomVals, reflectance \in ReflectanceVals(material.material_data) :
             stack' = Append(
                 [stack EXCEPT ![Len(stack)] =
                     [@ EXCEPT !.pc = "wait",
                               !.draws = @ + 3,
                               !.cells = Append(@, SampleCells(params, Top.depth)[Top.cell]),
                               !.branch = SampleBranch(material, prob, reflectance)]],
                 Frame(Top.sampler_depth))
    /\ UNCHANGED <<params, scene, pc, sample, pix, output, last, raised, tileVars, extVars>>

\* return material.totalEmission(result / (u_samples * v_samples)): the
\* attribute is looked up before the argument is evaluated, and the material
\* classes define total_emission only, so the lookup raises AttributeError,
\* which no caller up to render catches
RadianceEmit ==
    /\ pc = "render"
    /\ stack # <<>>
    /\ Top.pc = "loop"
    /\ Top.cell > Len(SampleCells(params, Top.depth))
    /\ "totalEmission" \notin MaterialMethods
    /\ pc' = "error"
    /\ raised' = "AttributeError"
    /\ stack' = <<>>
    /\ UNCHANGED <<params, scene, sample, pix, output, last, tileVars, extVars>>

----------------------------------------------------------------------------

AllParams ==
    [width : 1..MaxDim, height : 1..MaxDim, samples_per_pixel : 1..MaxSamples,
     max_depth : 0..MaxDepth, first_bounce_u_samples : 1..MaxBounce,
     first_bounce_v_samples : 1..MaxBounce, preview : BOOLEAN]

\* The configurations explored: every image size and pass count with one
\* sample per bounce and at most one bounce, and every depth limit and
\* first-bounce sample count on a one-pixel, one-pass image
ParamSets ==
    {p \in AllParams :
        \/ p.first_bounce_u_samples = 1 /\ p.first_bounce_v_samples = 1 /\ p.max_depth <= 1
        \/ p.width = 1 /\ p.height = 1 /\ p.samples_per_pixel = 1}

TilesIdle ==
    /\ targs = <<>>
    /\ tiles = <<>>
    /\ tpc = "idle"

ImagesIdle ==
    /\ imgs = <<>>
    /\ ilog = <<>>
    /\ ilast = NoOp

WorkersIdle ==
    /\ shared = AccumulableImage(0, 0)
    /\ sequential = AccumulableImage(0, 0)
    /\ workers = <<>>

NoApply == [op |-> "none"]

AliasIdle ==
    /\ heap = <<>>
    /\ frames = <<>>

ExtIdle ==
    /\ ImagesIdle
    /\ WorkersIdle
    /\ call = NoApply
    /\ AliasIdle

----------------------------------------------------------------------------
(* Renderer.generate_tiles *)

DEFAULT_RENDERER_PARAMS ==
    [width |-> 1920, height |-> 1080, preview |-> FALSE, samples_per_pixel |-> 40,
     max_cpus |-> 1, max_depth |-> 5, first_bounce_u_samples |-> 4,
     first_bounce_v_samples |-> 4]

\* The k-th value random.random() returns from the generator state seed
\* (seed 0 makes every draw equal, so that ties on rand_prio are covered)
RandomDraw(seed, k) == (seed * k) % RandMod

\* Variant: the end of a tile is not clipped to the image or sample budget
TileEndUnclipped(pos, size, limit) == pos + size

\* min(pos + size, limit)
TileEnd(pos, size, limit) == Min(pos + size, limit)

\* int(beg + end / 2): end / 2 is a float and the sum is not negative, so
\* int() is the floor
TileMid(beg, end) == beg + (end \div 2)

\* int((x_mid - width / 2) ** 2 + (y_mid - height / 2) ** 2)
DistSqr(x_mid, y_mid, width, height) ==
    (((2 * x_mid - width) * (2 * x_mid - width))
        + ((2 * y_mid - height) * (2 * y_mid - height))) \div 4

MakeTile(a, x_pos, y_pos, samples, rnd) ==
    LET x_end == TileEnd(x_pos, a.x_size, a.width)
        y_end == TileEnd(y_pos, a.y_size, a.height)
    IN  [x_range |-> <<x_pos, x_end>>,
         y_range |-> <<y_pos, y_end>>,
         samples |-> TileEnd(samples, a.samples_per_tile, a.sample_count) - samples,
         sample_ix |-> samples,
         dist_prio |-> DistSqr(TileMid(x_pos, x_end), TileMid(y_pos, y_end),
                               a.width, a.height),
         rand_prio |-> rnd]

\* The list the three nested loops append to, in the order of the appends
UnsortedTiles(a) ==
    LET ys == RangeStep(a.height, a.y_size)
        xs == RangeStep(a.width, a.x_size)
        ss == RangeStep(a.sample_count, a.samples_per_tile)
    IN  [k \in 1..(Len(ys) * Len(xs) * Len(ss)) |->
            MakeTile(a,
                     xs[(((k - 1) \div Len(ss)) % Len(xs)) + 1],
                     ys[((k - 1) \div (Len(ss) * Len(xs))) + 1],
                     ss[((k - 1) % Len(ss)) + 1],
                     RandomDraw(a.seed, k))]

\* Variant: the sample level is left out of the sort key
KeyLessNoLevel(a, b) ==
    \/ a.dist_prio < b.dist_prio
    \/ a.dist_prio = b.dist_prio /\ a.rand_prio < b.rand_prio

\* (a.sample_ix, a.dist_prio, a.rand_prio) < (b.sample_ix, b.dist_prio, b.rand_prio)
KeyLess(a, b) ==
    \/ a.sample_ix < b.sample_ix
    \/ a.sample_ix = b.sample_ix /\ a.dist_prio < b.dist_prio
    \/ a.sample_ix = b.sample_ix /\ a.dist_prio = b.dist_prio /\ a.rand_prio < b.rand_prio

\* x put into the sorted sequence s, behind the elements with an equal key
InsertTile(s, x) ==
    LET after == {i \in 1..Len(s) : KeyLess(x, s[i])}
        p == IF after = {} THEN Len(s) + 1
             ELSE CHOOSE i \in after : \A j \in after : i <= j
    IN  SubSeq(s, 1, p - 1) \o <<x>> \o SubSeq(s, p, Len(s))

RECURSIVE SortInto(_, _, _)
SortInto(s, seq, k) ==
    IF k > Len(seq) THEN s ELSE SortInto(InsertTile(s, seq[k]), seq, k + 1)

\* sorted(tiles, key=...): a stable sort
Sorted(seq) == SortInto(<<>>, seq, 1)

TileArgs ==
    [x_size : 1..MaxTileSize, y_size : 1..MaxTileSize,
     sample_count : 1..MaxTileSamples, samples_per_tile : 1..MaxTileSamples,
     width : {-1} \cup (1..MaxTileDim), height : {-1} \cup (1..MaxTileDim),
     seed : 0..MaxSeed]

\* generate_tiles with image width and height given
GenerateTiles ==
    /\ tpc = "idle"
    /\ targs.width >= 0
    /\ targs.height >= 0
    /\ tiles' = Sorted(UnsortedTiles(targs))
    /\ tpc' = "done"
    /\ UNCHANGED <<targs, renderVars, extVars>>

\* generate_tiles with width or height left at -1: self.params.width (or
\* .height) is an attribute lookup on the params dict and raises
\* AttributeError
GenerateTilesDefaultSize ==
    /\ tpc = "idle"
    /\ targs.width < 0 \/ targs.height < 0
    /\ tpc' = "error"
    /\ raised' = "AttributeError"
    /\ UNCHANGED <<targs, tiles, params, scene, pc, sample, pix, output, stack, last, extVars>>

TilesInit ==
    /\ params = DEFAULT_RENDERER_PARAMS
    /\ scene = SphereScene
    /\ pc = "idle"
    /\ sample = 0
    /\ pix = 0
    /\ output = AccumulableImage(0, 0)
    /\ stack = <<>>
    /\ last = NoCall
    /\ raised = "none"
    /\ targs \in TileArgs
    /\ tiles = <<>>
    /\ tpc = "idle"
    /\ ExtIdle

TilesNext ==
    \/ GenerateTiles
    \/ GenerateTilesDefaultSize

TilesSpec == TilesInit /\ [][TilesNext]_vars

----------------------------------------------------------------------------
(* AccumulableImage on its own: add_samples, reads and merges of a few     *)
(* images.  Colour components are integers, on which the double arithmetic *)
(* of numpy is exact.                                                      *)

RenderIdle ==
    /\ params = DEFAULT_RENDERER_PARAMS
    /\ scene = SphereScene
    /\ pc = "idle"
    /\ sample = 0
    /\ pix = 0
    /\ output = AccumulableImage(0, 0)
    /\ stack = <<>>
    /\ last = NoCall
    /\ raised = "none"

\* Image sizes (width, height)
ImgSizes == {<<2, 1>>, <<1, 1>>}

\* One image receiving add_samples calls and being read
ImagesInit ==
    /\ RenderIdle
    /\ TilesIdle
    /\ WorkersIdle
    /\ call = NoApply
    /\ AliasIdle
    /\ \E sz \in ImgSizes : imgs = [i \in {"img"} |-> AccumulableImage(sz[1], sz[2])]
    /\ ilog = [i \in {"img"} |-> <<>>]
    /\ ilast = NoOp

ImagesNext ==
    \/ AddSamples
    \/ GetItem

ImagesSpec == ImagesInit /\ [][ImagesNext]_vars

\* The calls a sequence of add_samples makes on an empty image
RECURSIVE Replay(_, _)
Replay(img, log) ==
    IF log = <<>> THEN img
    ELSE LET c == Head(log)
         IN  Replay(add_samples(img, c.pos[1], c.pos[2], c.colour, c.count), Tail(log))

\* the history of test_accimg_addition: every pixel gets x + y + 1 samples
\* of one colour
RECURSIVE FillHistory(_, _)
FillHistory(i, pixels) ==
    IF pixels = {} THEN <<>>
    ELSE LET p == CHOOSE q \in pixels : \A r \in pixels : q[1] < r[1] \/ (q[1] = r[1] /\ q[2] <= r[2])
         IN  <<[origin |-> i, pos |-> p, colour |-> <<1, 5, 9>>, count |-> p[1] + p[2] + 1]>>
                 \o FillHistory(i, pixels \ {p})

\* Histories of the partial images that are merged: none, the fill of the
\* test, one call, and two calls of which one has no samples
Histories(i, sz) ==
    LET lastpix == <<sz[1] - 1, sz[2] - 1>>
    IN  { <<>>,
          FillHistory(i, Pixels(sz[1], sz[2])),
          <<[origin |-> i, pos |-> <<0, 0>>, colour |-> <<2, 0, 1>>, count |-> 2]>>,
          <<[origin |-> i, pos |-> <<0, 0>>, colour |-> <<1, 5, 9>>, count |-> 0],
            [origin |-> i, pos |-> lastpix, colour |-> <<2, 0, 1>>, count |-> 1]>> }

ImgNames == {"a", "b", "c"}

\* Three partial images, each filled by its history; "c" may have another
\* size than the other two
MergeInit ==
    /\ RenderIdle
    /\ TilesIdle
    /\ WorkersIdle
    /\ call = NoApply
    /\ AliasIdle
    /\ \E sz \in ImgSizes : \E szc \in ImgSizes :
           /\ ilog \in [ImgNames -> UNION {Histories(i, <<1, 1>>) \cup Histories(i, <<2, 1>>) : i \in ImgNames}]
           /\ \A i \in ImgNames :
                  ilog[i] \in Histories(i, IF i = "c" THEN szc ELSE sz)
           /\ imgs = [i \in ImgNames |->
                         LET s == IF i = "c" THEN szc ELSE sz
                         IN  Replay(AccumulableImage(s[1], s[2]), ilog[i])]
    /\ ilast = NoOp

MergeNext ==
    \/ IAdd
    \/ IAddAssert

MergeSpec == MergeInit /\ [][MergeNext]_vars

----------------------------------------------------------------------------
(* add_samples called by two workers on one image.  A call is four steps:  *)
(* read and write of the colour sum of the pixel, then read and write of   *)
(* its sample count.                                                       *)

Workers == {1, 2}

\* The pixels of a worker: the image is split in columns
OwnPixels(w) == {p \in Pixels(2, 2) : p[1] = w - 1}

\* Another worker has read a value that it has not written back yet
OtherBetween(w) ==
    \E v \in Workers \ {w} : workers[v].pc \in {"write_sum", "write_count"}

\* colour and sample_count of the calls
WorkerSamples == {<<<<1, 5, 9>>, 1>>, <<<<2, 0, 1>>, 2>>}

\* an update of the whole array instead of the cells of one pixel
TouchedAll(img, pos) == DOMAIN img.image

\* The cells self.image[:, x, y] += ... and self.sample_counts[x, y] += ...
\* read and write
Touched(img, pos) == {pos}

IdleWorker == [pc |-> "idle", pos |-> <<0, 0>>, colour |-> Vec3Zero, count |-> 0,
               tmp |-> <<>>, done |-> 0, mixed |-> FALSE]

WorkersInit ==
    /\ RenderIdle
    /\ TilesIdle
    /\ ImagesIdle
    /\ call = NoApply
    /\ AliasIdle
    /\ shared = AccumulableImage(2, 2)
    /\ sequential = AccumulableImage(2, 2)
    /\ workers = [w \in Workers |-> IdleWorker]

\* a worker enters add_samples(x, y, colour, sample_count) for one of its
\* pixels; sequential is the image the calls give when each runs alone
WorkerCall ==
    \E w \in Workers : \E p \in OwnPixels(w) : \E sm \in WorkerSamples :
        /\ workers[w].pc = "idle"
        /\ workers[w].done < MaxCalls
        /\ workers' = [workers EXCEPT ![w] = [@ EXCEPT !.pc = "read_sum", !.pos = p,
                                                       !.colour = sm[1], !.count = sm[2]]]
        /\ sequential' = add_samples(sequential, p[1], p[2], sm[1], sm[2])
        /\ UNCHANGED <<shared, renderVars, aliasVars, tileVars, imageVars, call>>

WorkerReadSum ==
    \E w \in Workers :
        /\ workers[w].pc = "read_sum"
        /\ workers' = [workers EXCEPT ![w] = [@ EXCEPT !.pc = "write_sum",
                          !.tmp = [q \in Touched(shared, workers[w].pos) |-> shared.image[q]]]]
        /\ UNCHANGED <<shared, sequential, renderVars, aliasVars, tileVars, imageVars, call>>

WorkerWriteSum ==
    \E w \in Workers :
        LET wk == workers[w]
        IN  /\ wk.pc = "write_sum"
            /\ shared' = [shared EXCEPT !.image = [q \in DOMAIN shared.image |->
                              IF q \in DOMAIN wk.tmp
                              THEN IF q = wk.pos
                                   THEN VAdd(wk.tmp[q], VScale(wk.colour, wk.count))
                                   ELSE wk.tmp[q]
                              ELSE shared.image[q]]]
            /\ workers' = [workers EXCEPT ![w] = [@ EXCEPT !.pc = "read_count", !.tmp = <<>>,
                                                           !.mixed = @ \/ OtherBetween(w)]]
            /\ UNCHANGED <<sequential, renderVars, aliasVars, tileVars, imageVars, call>>

WorkerReadCount ==
    \E w \in Workers :
        /\ workers[w].pc = "read_count"
        /\ workers' = [workers EXCEPT ![w] = [@ EXCEPT !.pc = "write_count",
                          !.tmp = [q \in Touched(shared, workers[w].pos) |-> shared.sample_counts[q]]]]
        /\ UNCHANGED <<shared, sequential, renderVars, aliasVars, tileVars, imageVars, call>>

WorkerWriteCount ==
    \E w \in Workers :
        LET wk == workers[w]
        IN  /\ wk.pc = "write_count"
            /\ shared' = [shared EXCEPT !.sample_counts = [q \in DOMAIN shared.sample_counts |->
                              IF q \in DOMAIN wk.tmp
                              THEN IF q = wk.pos THEN wk.tmp[q] + wk.count ELSE wk.tmp[q]
                              ELSE shared.sample_counts[q]]]
            /\ workers' = [workers EXCEPT ![w] = [IdleWorker EXCEPT !.done = wk.done + 1,
                                                   !.mixed = wk.mixed \/ OtherBetween(w)]]
            /\ UNCHANGED <<sequential, renderVars, aliasVars, tileVars, imageVars, call>>

WorkersNext ==
    \/ WorkerCall
    \/ WorkerReadSum
    \/ WorkerWriteSum
    \/ WorkerReadCount
    \/ WorkerWriteCount

WorkersSpec == WorkersInit /\ [][WorkersNext]_vars

----------------------------------------------------------------------------
(* Single calls of the intersection and material functions: the arguments  *)
(* are drawn when the call is made, the call then returns its result.      *)

\* _EPS = 0.0000001 is 1 / EpsDen
EpsDen == 10000000

\* t < _EPS and t > _EPS for an integer t
LtEps(t) == t * EpsDen < 1
GtEps(t) == t * EpsDen > 1

NoneHit == [hit |-> FALSE]

HitRecord(distance, position, is_inside, normal) ==
    [hit |-> TRUE, distance |-> distance, position |-> position,
     is_inside |-> is_inside, normal |-> normal]

\* Ray.point_at
point_at(ray, distance) == VAdd(ray.origin, VScale(ray.direction, distance))

\* The discriminant of Sphere.intersect
SphereDiscr(sph, ray) ==
    LET orig == VSub(sph.centre, ray.origin)
        b_coeff == Dot(orig, ray.direction)
    IN  b_coeff * b_coeff - Dot(orig, orig) + sph.radius * sph.radius

\* Sphere.intersect that returns the outward normal as it is
SphereIntersectNoFlip(sph, ray) ==
    LET orig == VSub(sph.centre, ray.origin)
        b_coeff == Dot(orig, ray.direction)
        discr == SphereDiscr(sph, ray)
    IN  IF discr < 0 THEN NoneHit
        ELSE LET root == ISqrt(discr)
                 t_neg == b_coeff - root
                 t_pos == b_coeff + root
             IN  IF LtEps(t_neg) /\ LtEps(t_pos) THEN NoneHit
                 ELSE LET t_val == IF GtEps(t_neg) THEN t_neg ELSE t_pos
                          hit_pos == point_at(ray, t_val)
                          hit_norm == normalised(VSub(hit_pos, sph.centre))
                          hit_inside == FDotPositive(hit_norm, ray.direction)
                      IN  HitRecord(t_val, hit_pos, hit_inside, hit_norm)

\* Sphere.intersect
SphereIntersect(sph, ray) ==
    LET orig == VSub(sph.centre, ray.origin)
        b_coeff == Dot(orig, ray.direction)
        discr == SphereDiscr(sph, ray)
    IN  IF discr < 0 THEN NoneHit
        ELSE LET root == ISqrt(discr)
                 t_neg == b_coeff - root
                 t_pos == b_coeff + root
             IN  IF LtEps(t_neg) /\ LtEps(t_pos) THEN NoneHit
                 ELSE LET t_val == IF GtEps(t_neg) THEN t_neg ELSE t_pos
                          hit_pos == point_at(ray, t_val)
                          hit_norm == normalised(VSub(hit_pos, sph.centre))
                          hit_inside == FDotPositive(hit_norm, ray.direction)
                      IN  HitRecord(t_val, hit_pos, hit_inside,
                                    IF hit_inside THEN FNeg(hit_norm) ELSE hit_norm)

\* Unit directions along the axes
AxisDirections ==
    {<<1, 0, 0>>, <<-1, 0, 0>>, <<0, 1, 0>>, <<0, -1, 0>>, <<0, 0, 1>>, <<0, 0, -1>>}

Coords == (-MaxCoord)..MaxCoord

\* Spheres of radius >= 0 (the assert of Sphere.__init__) around one centre
Spheres == {[centre |-> <<0, 0, 1>>, radius |-> r] : r \in 0..MaxRadius}

GridRays == {[origin |-> o, direction |-> d] : o \in Coords \X Coords \X Coords,
                                               d \in AxisDirections}

\* Sphere.intersect on the spheres and rays whose discriminant is negative
\* or the square of an integer
SphereCalls ==
    \E sph \in Spheres : \E ray \in GridRays :
        /\ SphereDiscr(sph, ray) < 0 \/ IsSquare(SphereDiscr(sph, ray))
        /\ call = [op |-> "Sphere.intersect", state |-> "pending", sphere |-> sph,
                   ray |-> ray]

SphereCall ==
    /\ call.op = "Sphere.intersect"
    /\ call.state = "pending"
    /\ call' = [op |-> call.op, state |-> "returned", sphere |-> call.sphere,
                ray |-> call.ray, result |-> SphereIntersect(call.sphere, call.ray)]
    /\ UNCHANGED <<renderVars, aliasVars, tileVars, imageVars, workerVars>>

\* Triangle.face_u, face_v and face_normal of the vertices <<v0, v1, v2>>
face_u(vertices) == VSub(vertices[2], vertices[1])
face_v(vertices) == VSub(vertices[3], vertices[1])
face_normal(vertices) == normalised(Cross(face_u(vertices), face_v(vertices)))

\* n / d < 0, n / d > 1 and n / d < _EPS for integers n and d # 0
QuotNegative(n, d) == n * d < 0
QuotAboveOne(n, d) == (n - d) * d > 0
QuotLtEps(n, d) == (n * EpsDen - d) * d < 0

\* Triangle.intersect that does not turn the normal of a back face
TriangleIntersectNoFlip(vertices, ray) ==
    LET p_vec == Cross(ray.direction, face_v(vertices))
        det == Dot(face_u(vertices), p_vec)
    IN  IF LtEps(det) /\ LtEps(-det) THEN NoneHit
        ELSE LET is_backface == LtEps(det)
                 t_vec == VSub(ray.origin, vertices[1])
                 u_num == Dot(t_vec, p_vec)
                 q_vec == Cross(t_vec, face_u(vertices))
                 v_num == Dot(ray.direction, q_vec)
                 t_num == Dot(face_v(vertices), q_vec)
             IN  IF \/ QuotNegative(u_num, det)
                    \/ QuotAboveOne(u_num, det)
                    \/ QuotNegative(v_num, det)
                    \/ QuotAboveOne(u_num + v_num, det)
                 THEN NoneHit
                 ELSE IF QuotLtEps(t_num, det) THEN NoneHit
                 ELSE HitRecord([num |-> t_num, den |-> det],
                                [num |-> VAdd(VScale(ray.origin, det),
                                              VScale(ray.direction, t_num)),
                                 den |-> det],
                                is_backface,
                                face_normal(vertices))

\* Triangle.intersect of a triangle built without normals: the three normals
\* are the face normal, and so is their interpolation.  u_pos, v_pos and
\* t_val are the quotients of u_num, v_num and t_num by det; the distance
\* and the position (origin + direction * t_val) are kept as fractions.
TriangleIntersect(vertices, ray) ==
    LET p_vec == Cross(ray.direction, face_v(vertices))
        det == Dot(face_u(vertices), p_vec)
    IN  IF LtEps(det) /\ LtEps(-det) THEN NoneHit
        ELSE LET is_backface == LtEps(det)
                 t_vec == VSub(ray.origin, vertices[1])
                 u_num == Dot(t_vec, p_vec)
                 q_vec == Cross(t_vec, face_u(vertices))
                 v_num == Dot(ray.direction, q_vec)
                 t_num == Dot(face_v(vertices), q_vec)
             IN  IF \/ QuotNegative(u_num, det)
                    \/ QuotAboveOne(u_num, det)
                    \/ QuotNegative(v_num, det)
                    \/ QuotAboveOne(u_num + v_num, det)
                 THEN NoneHit
                 ELSE IF QuotLtEps(t_num, det) THEN NoneHit
                 ELSE HitRecord([num |-> t_num, den |-> det],
                                [num |-> VAdd(VScale(ray.origin, det),
                                              VScale(ray.direction, t_num)),
                                 den |-> det],
                                is_backface,
                                IF is_backface THEN FNeg(face_normal(vertices))
                                ELSE face_normal(vertices))

\* Triangles with the first vertex at (0, 0, 1) and the other two at the
\* corners of the unit cube from there
TriOffsets == {0, 1} \X {0, 1} \X {0, 1}

Triangles ==
    {<<<<0, 0, 1>>, VAdd(<<0, 0, 1>>, a), VAdd(<<0, 0, 1>>, b)>> : a \in TriOffsets, b \in TriOffsets}

\* The same triangle with the second and third vertices exchanged
Rewound(vertices) == <<vertices[1], vertices[3], vertices[2]>>

\* Rays from the lattice points around the triangles, along the axes
TriangleRays ==
    {[origin |-> o, direction |-> d] : o \in (-1..2) \X (-1..2) \X (-1..2),
                                       d \in AxisDirections}

TriangleCalls ==
    \E tr \in Triangles : \E ray \in TriangleRays :
        call = [op |-> "Triangle.intersect", state |-> "pending", vertices |-> tr,
                ray |-> ray]

\* The ray is cast on the triangle and on the triangle of the other winding
TriangleCall ==
    /\ call.op = "Triangle.intersect"
    /\ call.state = "pending"
    /\ call' = [op |-> call.op, state |-> "returned", vertices |-> call.vertices,
                ray |-> call.ray,
                result |-> TriangleIntersect(call.vertices, call.ray),
                rewound |-> TriangleIntersect(Rewound(call.vertices), call.ray)]
    /\ UNCHANGED <<renderVars, aliasVars, tileVars, imageVars, workerVars>>

RECURSIVE GCD(_, _)
GCD(a, b) == IF b = 0 THEN a ELSE GCD(b, a % b)

Abs(a) == IF a < 0 THEN -a ELSE a

\* The quotient n / d (d > 0) in lowest terms
Quot(n, d) ==
    LET g == GCD(Abs(n), d)
    IN  [num |-> n \div g, den |-> d \div g]

\* Vec3.reflectance for cos_theta_i = cos[1] / cos[2] and refraction indices
\* in tenths, as a quotient.  With rad = ior_to^2 cos[2]^2 - ior_from^2
\* (cos[2]^2 - cos[1]^2), sin_theta_sqr > 1.0 is rad < 0 and cos_theta_t is
\* sqrt(rad) / (ior_to * cos[2]).
reflectance(cos, ior_from, ior_to) ==
    LET rad == ior_to * ior_to * cos[2] * cos[2]
                   - ior_from * ior_from * (cos[2] * cos[2] - cos[1] * cos[1])
    IN  IF rad < 0 THEN [num |-> 1, den |-> 1]
        ELSE LET root == ISqrt(rad)
                 r_perpendicular == Quot(ior_from * cos[1] - root, ior_from * cos[1] + root)
                 r_parallel == Quot(ior_to * ior_to * cos[1] - ior_from * root,
                                    ior_to * ior_to * cos[1] + ior_from * root)
             IN  [num |-> r_perpendicular.num * r_perpendicular.num
                              * r_parallel.den * r_parallel.den
                          + r_parallel.num * r_parallel.num
                              * r_perpendicular.den * r_perpendicular.den,
                  den |-> 2 * r_perpendicular.den * r_perpendicular.den
                            * r_parallel.den * r_parallel.den]

\* The square root of reflectance is taken of a square (or not taken)
ReflectanceExact(cos, ior_from, ior_to) ==
    LET rad == ior_to * ior_to * cos[2] * cos[2]
                   - ior_from * ior_from * (cos[2] * cos[2] - cos[1] * cos[1])
    IN  rad < 0 \/ IsSquare(rad)

\* A quotient in [0, 1] as the least percentage p with quotient <= p / 100:
\* a probability of q percent is below the quotient exactly when q < p
Percent(q) == (100 * q.num + q.den - 1) \div q.den

\* MatteMaterial.sample with ior_from and ior_to never exchanged
MatteReflectivityNoSwap(md, hit_record) ==
    reflectance(hit_record.cos, 10, md.refraction_index)

\* MatteMaterial.sample: the reflectance, with ior_from = 1.0 and ior_to =
\* refraction_index exchanged for a hit from inside
MatteReflectivity(md, hit_record) ==
    IF hit_record.is_inside
    THEN reflectance(hit_record.cos, md.refraction_index, 10)
    ELSE reflectance(hit_record.cos, 10, md.refraction_index)

\* Material data of the calls (reflectivity in percent, index in tenths)
SampleMaterialData ==
    {MaterialData(Vec3Zero, <<1, 1, 1>>, ior, refl) :
         ior \in {10, 13, 15, 20}, refl \in {-100, 0, 50, 100}}

\* cos_theta_i of the calls: 1, 1/3 and 1/4
Incidences == {<<1, 1>>, <<1, 3>>, <<1, 4>>}

\* Probability draws (percent) of the calls; random.random() is in [0, 1)
Probs == {0, 1, 2, 17, 18, 31, 32, 50, 99}

MaterialCalls ==
    \E md \in SampleMaterialData : \E hr \in [is_inside : BOOLEAN, cos : Incidences] :
    \E prob \in Probs :
        /\ IF hr.is_inside
           THEN ReflectanceExact(hr.cos, md.refraction_index, 10)
           ELSE ReflectanceExact(hr.cos, 10, md.refraction_index)
        /\ call = [op |-> "Material.sample", state |-> "pending", material_data |-> md,
                   hit_record |-> hr, prob |-> prob]

\* material_from_data(material_data).sample(hit_record, ..., prob), up to the
\* choice of the branch
MaterialCall ==
    /\ call.op = "Material.sample"
    /\ call.state = "pending"
    /\ LET material == material_from_data(call.material_data)
       IN  call' = [op |-> call.op, state |-> "returned",
                    material_data |-> call.material_data,
                    hit_record |-> call.hit_record, prob |-> call.prob,
                    material |-> material,
                    branch |-> SampleBranch(material, call.prob,
                                  Percent(MatteReflectivity(call.material_data,
                                                            call.hit_record)))]
    /\ UNCHANGED <<renderVars, aliasVars, tileVars, imageVars, workerVars>>

\* A scene of n primitives, primitive k of the diffuse colour (k, k, k)
----------------------------------------------------------------------------
(* OrthonormalBasis.  A vector here is num / sqrt(sqr) with an integer     *)
(* vector num (sqr = 0: nan in every component), which is closed under     *)
(* cross products and normalisation.                                       *)

FVec(v) == [num |-> v, sqr |-> 1]

FNan == [num |-> Vec3Zero, sqr |-> 0]

\* a.cross(b)
FCross(a, b) ==
    IF IsNan(a) \/ IsNan(b) THEN FNan
    ELSE [num |-> Cross(a.num, b.num), sqr |-> a.sqr * b.sqr]

\* a.normalised(): a / a.length(), nan for the zero vector
FNormalised(a) ==
    IF IsNan(a) \/ a.num = Vec3Zero THEN FNan
    ELSE [num |-> a.num, sqr |-> Dot(a.num, a.num)]

\* a * s for an integer s; nan * 0 is nan
FScale(a, s) == IF IsNan(a) THEN FNan ELSE [num |-> VScale(a.num, s), sqr |-> a.sqr]

\* a + b, on the operands the calls below make: one of them zero, or both
\* over the same root
FAdd(a, b) ==
    CASE IsNan(a) \/ IsNan(b) -> FNan
      [] a.num = Vec3Zero -> b
      [] b.num = Vec3Zero -> a
      [] a.sqr = b.sqr -> [num |-> VAdd(a.num, b.num), sqr |-> a.sqr]

\* abs(a) == 1.0
FIsUnit(a) == ~IsNan(a) /\ Dot(a.num, a.num) = a.sqr

\* a.dot(b) == 0.0
FOrthogonal(a, b) == ~IsNan(a) /\ ~IsNan(b) /\ Dot(a.num, b.num) = 0

\* a == b: the same direction and the same length
FSame(a, b) ==
    /\ ~IsNan(a)
    /\ ~IsNan(b)
    /\ Cross(a.num, b.num) = Vec3Zero
    /\ Dot(a.num, b.num) >= 0
    /\ Dot(a.num, a.num) * b.sqr = Dot(b.num, b.num) * a.sqr

AxisNames == {"x", "y", "z"}

THIRD_AXE ==
    (<<"x", "y">> :> "z") @@ (<<"y", "x">> :> "z") @@ (<<"x", "z">> :> "y") @@
    (<<"z", "x">> :> "y") @@ (<<"y", "z">> :> "x") @@ (<<"z", "y">> :> "x")

\* OrthonormalBasis(x_axis, y_axis, z_axis)
OrthonormalBasis(x_axis, y_axis, z_axis) ==
    [x_axis |-> x_axis, y_axis |-> y_axis, z_axis |-> z_axis]

\* OrthonormalBasis(**kwargs) for keyword arguments x_axis, y_axis, z_axis
BasisOf(kwargs) == OrthonormalBasis(kwargs["x"], kwargs["y"], kwargs["z"])

Raised(error) == [raised |-> error]

Returned(value) == [raised |-> "none", value |-> value]

\* assert 0 <= index < 3
IndexInRange(index) == 0 <= index /\ index < 3

\* _arr[index] = val of numpy: a negative index counts from the end
ArraySet(arr, index, val) ==
    IF index >= 0 THEN [arr EXCEPT ![index + 1] = val]
    ELSE [arr EXCEPT ![Len(arr) + index + 1] = val]

\* _arr[index] of numpy
ArrayGet(arr, index) ==
    IF index >= 0 THEN arr[index + 1] ELSE arr[Len(arr) + index + 1]

\* len(_arr) is 3: the indices numpy accepts
ArrayIndices == -3..2

\* Variant: the component is written before the index is checked
Vec3SetItemLate(vec, index, val) ==
    IF index \notin ArrayIndices THEN [raised |-> "IndexError", vec |-> vec]
    ELSE IF ~IndexInRange(index)
         THEN [raised |-> "AssertionError", vec |-> ArraySet(vec, index, val)]
         ELSE [raised |-> "none", vec |-> ArraySet(vec, index, val)]

\* Vec3.__setitem__: the outcome and the components of the vector afterwards
Vec3SetItem(vec, index, val) ==
    IF ~IndexInRange(index) THEN [raised |-> "AssertionError", vec |-> vec]
    ELSE [raised |-> "none", vec |-> ArraySet(vec, index, val)]

\* Vec3.__getitem__
Vec3GetItem(vec, index) ==
    IF ~IndexInRange(index) THEN Raised("AssertionError")
    ELSE Returned(ArrayGet(vec, index))

\* Vec3.versor: res = Vec3(); res[index] = 1.0
Vec3Versor(index) ==
    IF ~IndexInRange(index) THEN Raised("AssertionError")
    ELSE LET set == Vec3SetItem(Vec3Zero, index, 1)
         IN  IF set.raised # "none" THEN Raised(set.raised) ELSE Returned(set.vec)

\* Vec3.versor(index) for an index in 0..2
versor(index) == Vec3Versor(index).value

\* Sphere.__init__
Sphere(centre, radius) ==
    IF ~(radius >= 0) THEN Raised("AssertionError")
    ELSE Returned([centre |-> centre, radius |-> radius])

\* Variant: the second vector is kept as it was given
from_two_keep_second(axes, first, second) ==
    IF ~(Len(axes) = 2 /\ axes[1] # axes[2]) THEN Raised("AssertionError")
    ELSE LET third == FNormalised(FCross(first, second))
         IN  IF axes \notin DOMAIN THIRD_AXE THEN Raised("KeyError")
             ELSE Returned(BasisOf((axes[1] :> first) @@ (axes[2] :> second) @@
                                   (THIRD_AXE[axes] :> third)))

\* OrthonormalBasis.from_two
from_two(axes, first, second) ==
    IF ~(Len(axes) = 2 /\ axes[1] # axes[2]) THEN Raised("AssertionError")
    ELSE LET third == FNormalised(FCross(first, second))
             second2 == FCross(third, first)
         IN  IF axes \notin DOMAIN THIRD_AXE THEN Raised("KeyError")
             ELSE Returned(BasisOf((axes[1] :> first) @@ (axes[2] :> second2) @@
                                   (THIRD_AXE[axes] :> third)))

\* abs(z_axis.dot(x_axis)) > 0.99 for the unit vector x_axis = versor(index)
NearlyAlong(z_axis, index) ==
    /\ ~IsNan(z_axis)
    /\ 10000 * z_axis.num[index + 1] * z_axis.num[index + 1] > 9801 * z_axis.sqr

\* OrthonormalBasis.from_z_axis
from_z_axis(z_axis) ==
    LET x_first == IF NearlyAlong(z_axis, 0) THEN versor(1) ELSE versor(0)
        x_axis == FNormalised(FCross(FVec(x_first), z_axis))
        y_axis == FNormalised(FCross(z_axis, x_axis))
    IN  OrthonormalBasis(x_axis, y_axis, z_axis)

\* OrthonormalBasis.transform
transform(basis, vec) ==
    FAdd(FAdd(FScale(basis.x_axis, vec[1]), FScale(basis.y_axis, vec[2])),
         FScale(basis.z_axis, vec[3]))

\* Camera.__init__: position and basis (the field of view only scales the
\* directions of the rays)
Camera(eye, look_at, up) ==
    LET basis == from_two(<<"z", "y">>, FNormalised(FVec(VSub(look_at, eye))), up)
    IN  IF basis.raised # "none" THEN basis
        ELSE Returned([position |-> eye, basis |-> basis.value,
                       aperture_radius |-> 0, focal_distance |-> 0])


\* The directions the basis calls are made on: the test vectors of
\* OrthonormalBasisTests and every direction with components in -1..1
BasisDirections ==
    {v \in {-1, 0, 1} \X {-1, 0, 1} \X {-1, 0, 1} : v # Vec3Zero}
        \cup {<<1, 2, 4>>, <<0, 0, -7>>}

\* Axis labels: every string of up to three letters of x, y, z, w
AxisLetters == {"x", "y", "z", "w"}
AxisStrings == UNION {[1..n -> AxisLetters] : n \in 0..3}

\* from_two is about to be called on two normalised vectors: with a valid
\* pair of labels on all of them, with any other label on one pair of them
FromTwoCalls ==
    \E axes \in AxisStrings : \E u \in BasisDirections, v \in BasisDirections :
        /\ axes \in DOMAIN THIRD_AXE \/ (u = versor(0) /\ v = versor(1))
        /\ call = [op |-> "OrthonormalBasis.from_two", state |-> "pending",
                   axes |-> axes, first |-> normalised(u), second |-> normalised(v)]

FromTwoCall ==
    /\ call.op = "OrthonormalBasis.from_two"
    /\ call.state = "pending"
    /\ call' = [op |-> call.op, state |-> "returned", axes |-> call.axes,
                first |-> call.first, second |-> call.second,
                result |-> from_two(call.axes, call.first, call.second)]
    /\ UNCHANGED <<renderVars, aliasVars, tileVars, imageVars, workerVars>>

FromZAxisCalls ==
    \E u \in BasisDirections :
        call = [op |-> "OrthonormalBasis.from_z_axis", state |-> "pending",
                z_axis |-> normalised(u)]

FromZAxisCall ==
    /\ call.op = "OrthonormalBasis.from_z_axis"
    /\ call.state = "pending"
    /\ call' = [op |-> call.op, state |-> "returned", z_axis |-> call.z_axis,
                result |-> Returned(from_z_axis(call.z_axis))]
    /\ UNCHANGED <<renderVars, aliasVars, tileVars, imageVars, workerVars>>

\* Camera(eye, look_at, up, ...) for a few eye and look-at points
CameraPoints == {<<0, 0, 0>>, <<0, 0, 1>>, <<1, 1, 0>>, <<2, -1, 1>>}

CameraCalls ==
    \E eye \in CameraPoints, look_at \in CameraPoints : \E k \in 0..2 :
        call = [op |-> "Camera.__init__", state |-> "pending", eye |-> eye,
                look_at |-> look_at, up |-> FVec(versor(k))]

CameraCall ==
    /\ call.op = "Camera.__init__"
    /\ call.state = "pending"
    /\ LET camera == Camera(call.eye, call.look_at, call.up)
       IN  call' = [op |-> call.op, state |-> "returned", eye |-> call.eye,
                    look_at |-> call.look_at, up |-> call.up,
                    result |-> IF camera.raised = "none"
                               THEN Returned(camera.value.basis) ELSE camera]
    /\ UNCHANGED <<renderVars, aliasVars, tileVars, imageVars, workerVars>>

\* basis.transform(Vec3.versor(index)) on a basis one of the calls above
\* has returned
TransformCall ==
    /\ call.op \in {"OrthonormalBasis.from_two", "OrthonormalBasis.from_z_axis",
                    "Camera.__init__"}
    /\ call.state = "returned"
    /\ call.result.raised = "none"
    /\ \E index \in 0..2 :
          call' = [field \in DOMAIN call \cup {"vec", "image"} |->
                     CASE field = "state" -> "transformed"
                       [] field = "vec" -> versor(index)
                       [] field = "image" -> transform(call.result.value, versor(index))
                       [] OTHER -> call[field]]
    /\ UNCHANGED <<renderVars, aliasVars, tileVars, imageVars, workerVars>>


\* Indices and radii on both sides of what the assertions accept
Indices == {-4, -3, -1, 0, 1, 2, 3, 5}
Radii == {-2, -1, 0, 1, 2}
SomeVectors == {<<1, 5, 9>>, <<0, 0, 0>>, <<-2, 3, 4>>}

SphereInitCalls ==
    \E centre \in SomeVectors, radius \in Radii :
        call = [op |-> "Sphere.__init__", state |-> "pending", centre |-> centre,
                radius |-> radius]

SphereInitCall ==
    /\ call.op = "Sphere.__init__"
    /\ call.state = "pending"
    /\ call' = [op |-> call.op, state |-> "returned", centre |-> call.centre,
                radius |-> call.radius, result |-> Sphere(call.centre, call.radius)]
    /\ UNCHANGED <<renderVars, aliasVars, tileVars, imageVars, workerVars>>

VersorCalls ==
    \E index \in Indices :
        call = [op |-> "Vec3.versor", state |-> "pending", index |-> index]

VersorCall ==
    /\ call.op = "Vec3.versor"
    /\ call.state = "pending"
    /\ call' = [op |-> call.op, state |-> "returned", index |-> call.index,
                result |-> Vec3Versor(call.index)]
    /\ UNCHANGED <<renderVars, aliasVars, tileVars, imageVars, workerVars>>

\* vec[index] and vec[index] = val on a vector with components vec
ItemCalls ==
    \E vec \in SomeVectors, index \in Indices :
        \/ call = [op |-> "Vec3.__getitem__", state |-> "pending", vec |-> vec,
                   index |-> index]
        \/ \E val \in {0, 7} :
              call = [op |-> "Vec3.__setitem__", state |-> "pending", vec |-> vec,
                      index |-> index, val |-> val]

VecGetItemCall ==
    /\ call.op = "Vec3.__getitem__"
    /\ call.state = "pending"
    /\ call' = [op |-> call.op, state |-> "returned", vec |-> call.vec,
                index |-> call.index, result |-> Vec3GetItem(call.vec, call.index),
                after |-> call.vec]
    /\ UNCHANGED <<renderVars, aliasVars, tileVars, imageVars, workerVars>>

VecSetItemCall ==
    /\ call.op = "Vec3.__setitem__"
    /\ call.state = "pending"
    /\ LET set == Vec3SetItem(call.vec, call.index, call.val)
       IN  call' = [op |-> call.op, state |-> "returned", vec |-> call.vec,
                    index |-> call.index, val |-> call.val,
                    result |-> Raised(set.raised), after |-> set.vec]
    /\ UNCHANGED <<renderVars, aliasVars, tileVars, imageVars, workerVars>>


\* Material.sample with its radiance sampler.  The materials emit light and
\* have a diffuse colour other than white; the sampler is called with a ray
\* (of which the origin is kept, the direction being a random sample of a
\* cone or a hemisphere) and returns a radiance.
EmittingMaterialData ==
    {MaterialData(<<8, 8, 8>>, <<2, 3, 4>>, ior, refl) :
         ior \in {10, 15}, refl \in {-100, 0, 50, 100}}

Radiances == {<<0, 0, 0>>, <<1, 1, 2>>, <<3, 0, 5>>}

SamplerCalls ==
    \E md \in EmittingMaterialData :
    \E hr \in [is_inside : BOOLEAN, cos : Incidences, position : SomeVectors] :
    \E prob \in Probs :
        /\ IF hr.is_inside
           THEN ReflectanceExact(hr.cos, md.refraction_index, 10)
           ELSE ReflectanceExact(hr.cos, 10, md.refraction_index)
        /\ call = [op |-> "Material.sample(radiance_sampler)", state |-> "pending",
                   material_data |-> md, hit_record |-> hr, prob |-> prob,
                   invoked |-> <<>>]

\* sample up to the call radiance_sampler(Ray(hit_record.position, ...))
SamplerInvoke ==
    /\ call.op = "Material.sample(radiance_sampler)"
    /\ call.state = "pending"
    /\ LET material == material_from_data(call.material_data)
           reflectivity == Percent(MatteReflectivity(call.material_data,
                                       [is_inside |-> call.hit_record.is_inside,
                                        cos |-> call.hit_record.cos]))
       IN  call' = [op |-> call.op, state |-> "sampling",
                    material_data |-> call.material_data,
                    hit_record |-> call.hit_record, prob |-> call.prob,
                    branch |-> SampleBranch(material, call.prob, reflectivity),
                    invoked |-> Append(call.invoked,
                                       [origin |-> call.hit_record.position])]
    /\ UNCHANGED <<renderVars, aliasVars, tileVars, imageVars, workerVars>>

\* the sampler returns a radiance and sample returns
SamplerReturn ==
    /\ call.op = "Material.sample(radiance_sampler)"
    /\ call.state = "sampling"
    /\ \E radiance \in Radiances :
          call' = [op |-> call.op, state |-> "returned",
                   material_data |-> call.material_data,
                   hit_record |-> call.hit_record, prob |-> call.prob,
                   branch |-> call.branch, invoked |-> call.invoked,
                   radiance |-> radiance,
                   result |-> SampleResult(material_from_data(call.material_data),
                                           call.branch, radiance)]
    /\ UNCHANGED <<renderVars, aliasVars, tileVars, imageVars, workerVars>>


SceneOf(n) ==
    [environment_colour |-> Vec3Zero,
     primitives |-> [k \in 1..n |-> Primitive(make_diffuse(<<k, k, k>>))]]

\* What the primitives of a scene of n primitives can answer to a ray: no
\* hit, a hit at a finite distance, or a hit at an infinite distance
HitLists(n) == [1..n -> {NoHit} \cup (1..MaxDist) \cup {InfDist}]

\* A call of Scene.intersect_ex is about to be made
SceneCalls ==
    \E n \in 0..MaxPrims : \E ray \in HitLists(n) :
        call = [op |-> "Scene.intersect_ex", state |-> "pending", scene |-> SceneOf(n),
                ray |-> ray]

SceneIntersect ==
    /\ call.op = "Scene.intersect_ex"
    /\ call.state = "pending"
    /\ LET result == SceneIntersectEx(call.scene, call.ray)
       IN  call' = [op |-> call.op, state |-> "returned", scene |-> call.scene,
                    ray |-> call.ray, result |-> result,
                    material |-> IF result.hit
                                 THEN call.scene.primitives[result.prim].material
                                 ELSE [kind |-> "none"]]
    /\ UNCHANGED <<renderVars, aliasVars, tileVars, imageVars, workerVars>>

PendingCalls ==
    \/ SceneCalls
    \/ SphereCalls
    \/ TriangleCalls
    \/ MaterialCalls
    \/ FromTwoCalls
    \/ FromZAxisCalls
    \/ CameraCalls
    \/ SphereInitCalls
    \/ VersorCalls
    \/ ItemCalls
    \/ SamplerCalls

CallsInit ==
    /\ RenderIdle
    /\ TilesIdle
    /\ ImagesIdle
    /\ WorkersIdle
    /\ AliasIdle
    /\ PendingCalls

CallsNext ==
    \/ SceneIntersect
    \/ SphereCall
    \/ TriangleCall
    \/ MaterialCall
    \/ FromTwoCall
    \/ FromZAxisCall
    \/ CameraCall
    \/ TransformCall
    \/ SphereInitCall
    \/ VersorCall
    \/ VecGetItemCall
    \/ VecSetItemCall
    \/ SamplerInvoke
    \/ SamplerReturn

CallsSpec == CallsInit /\ [][CallsNext]_vars

----------------------------------------------------------------------------

----------------------------------------------------------------------------
(* Renderer.render and Renderer.radiance with the Vec3 objects they pass   *)
(* around.  A reference names a Vec3 object: the environment colour of the *)
(* scene, the diffuse colour of the material of a primitive, or a vector   *)
(* created during the render (heap).  The scene holds the components of    *)
(* its own vectors.                                                        *)

EnvRef == [obj |-> "environment_colour"]

DiffuseRef(k) == [obj |-> "diffuse", prim |-> k]

TempRef(n) == [obj |-> "temp", at |-> n]

\* The components of the object ref
Deref(sc, hp, ref) ==
    CASE ref.obj = "environment_colour" -> sc.environment_colour
      [] ref.obj = "diffuse" -> sc.primitives[ref.prim].material.material_data.diffuse
      [] ref.obj = "temp" -> hp[ref.at]

\* The scene and the heap after the components of the object ref are
\* overwritten by val
StoreScene(sc, ref, val) ==
    CASE ref.obj = "environment_colour" -> [sc EXCEPT !.environment_colour = val]
      [] ref.obj = "diffuse" ->
             [sc EXCEPT !.primitives[ref.prim].material.material_data.diffuse = val]
      [] OTHER -> sc

StoreHeap(hp, ref, val) ==
    IF ref.obj = "temp" THEN [hp EXCEPT ![ref.at] = val] ELSE hp

\* Vec3.__iadd__: self._arr += other._arr writes the array of self
IAddTarget(left, right) == left

\* Variant: the sampling loop accumulates into the environment colour
SharedResult(hp) == EnvRef

\* result = Vec3(): the vector created next on the heap hp
NewResult(hp) == TempRef(Len(hp) + 1)

\* A call of radiance in progress; result is the reference held by the
\* local variable result, added the references of the values added to it
AliasFrame(depth) ==
    [depth |-> depth, pc |-> "enter", prim |-> 0, cell |-> 1, branch |-> "none",
     result |-> EnvRef, added |-> <<>>]

AliasTop == frames[Len(frames)]

\* The call on top returns the object ref, hp being the heap it leaves.
\* render passes the object to add_samples, which reads it (colour.data() *
\* sample_count is a new array).  The sample method of the caller returns it
\* as it is (specular) or returns the new vector diffuse * it, and the
\* sampling loop adds that to result in place.
AliasReturn(hp, ref) ==
    IF Len(frames) = 1
    THEN LET pos == RenderPixels(params)[pix]
         IN  /\ output' = add_samples(output, pos[1], pos[2], Deref(scene, hp, ref), 1)
             /\ frames' = <<>>
             /\ IF pix < Len(RenderPixels(params))
                THEN pix' = pix + 1 /\ sample' = sample
                ELSE pix' = 1 /\ sample' = sample + 1
             /\ heap' = hp
             /\ scene' = scene
    ELSE LET caller == frames[Len(frames) - 1]
             material == scene.primitives[caller.prim].material
             sampled == IF caller.branch = "specular" THEN hp
                        ELSE Append(hp, VMul(material.material_data.diffuse,
                                             Deref(scene, hp, ref)))
             value == IF caller.branch = "specular" THEN ref
                      ELSE TempRef(Len(sampled))
             target == IAddTarget(caller.result, value)
             sum == VAdd(Deref(scene, sampled, caller.result),
                         Deref(scene, sampled, value))
         IN  /\ heap' = StoreHeap(sampled, target, sum)
             /\ scene' = StoreScene(scene, target, sum)
             /\ frames' = [SubSeq(frames, 1, Len(frames) - 1) EXCEPT
                              ![Len(frames) - 1] =
                                  [caller EXCEPT !.pc = "loop", !.branch = "none",
                                                 !.cell = @ + 1,
                                                 !.added = Append(@, value)]]
             /\ UNCHANGED <<output, pix, sample>>

AliasRenderBegin ==
    /\ pc = "idle"
    /\ pc' = "render"
    /\ output' = AccumulableImage(params.width, params.height)
    /\ sample' = 1
    /\ pix' = 1
    /\ UNCHANGED <<params, scene, stack, last, raised, heap, frames>>
    /\ UNCHANGED <<tileVars, imageVars, workerVars, call>>

\* ray = self.camera.get_ray(x_pos, y_pos); self.radiance(ray, 0) is entered
AliasGetRay ==
    /\ pc = "render"
    /\ frames = <<>>
    /\ sample <= params.samples_per_pixel
    /\ frames' = <<AliasFrame(0)>>
    /\ UNCHANGED <<params, scene, pc, sample, pix, output, stack, last, raised, heap>>
    /\ UNCHANGED <<tileVars, imageVars, workerVars, call>>

AliasRenderFinish ==
    /\ pc = "render"
    /\ frames = <<>>
    /\ sample > params.samples_per_pixel
    /\ pc' = "done"
    /\ UNCHANGED <<params, scene, sample, pix, output, stack, last, raised, heap, frames>>
    /\ UNCHANGED <<tileVars, imageVars, workerVars, call>>

\* if depth >= max_depth: return Vec3(), a new vector
AliasLimit ==
    /\ pc = "render"
    /\ frames # <<>>
    /\ AliasTop.pc = "enter"
    /\ DepthLimit(params, AliasTop.depth)
    /\ AliasReturn(Append(heap, Vec3Zero), TempRef(Len(heap) + 1))
    /\ UNCHANGED <<params, pc, stack, last, raised>>
    /\ UNCHANGED <<tileVars, imageVars, workerVars, call>>

\* hit is None: return self.scene.environment_colour, the object of the scene
AliasMiss ==
    /\ pc = "render"
    /\ frames # <<>>
    /\ AliasTop.pc = "enter"
    /\ ~DepthLimit(params, AliasTop.depth)
    /\ \E ray \in Rays(scene) :
          /\ ~SceneIntersectEx(scene, ray).hit
          /\ AliasReturn(heap, EnvRef)
    /\ UNCHANGED <<params, pc, stack, last, raised>>
    /\ UNCHANGED <<tileVars, imageVars, workerVars, call>>

\* preview: return material.preview_colour(), the diffuse colour object of
\* the material data
AliasPreview ==
    /\ pc = "render"
    /\ frames # <<>>
    /\ AliasTop.pc = "enter"
    /\ ~DepthLimit(params, AliasTop.depth)
    /\ params.preview
    /\ \E ray \in Rays(scene) :
          LET hit == SceneIntersectEx(scene, ray)
          IN  /\ hit.hit
              /\ AliasReturn(heap, DiffuseRef(hit.prim))
    /\ UNCHANGED <<params, pc, stack, last, raised>>
    /\ UNCHANGED <<tileVars, imageVars, workerVars, call>>

\* a hit without preview: result = Vec3(), a new vector
AliasHit ==
    /\ pc = "render"
    /\ frames # <<>>
    /\ AliasTop.pc = "enter"
    /\ ~DepthLimit(params, AliasTop.depth)
    /\ ~params.preview
    /\ \E ray \in Rays(scene) :
          LET hit == SceneIntersectEx(scene, ray)
          IN  /\ hit.hit
              /\ heap' = Append(heap, Vec3Zero)
              /\ frames' = [frames EXCEPT ![Len(frames)] =
                     [@ EXCEPT !.pc = "loop", !.prim = hit.prim, !.cell = 1,
                               !.result = NewResult(heap)]]
    /\ UNCHANGED <<params, scene, pc, sample, pix, output, stack, last, raised>>
    /\ UNCHANGED <<tileVars, imageVars, workerVars, call>>

\* one pass of the sampling loop up to the call of the radiance sampler
\* inside material.sample
AliasSample ==
    /\ pc = "render"
    /\ frames # <<>>
    /\ AliasTop.pc = "loop"
    /\ AliasTop.cell <= Len(SampleCells(params, AliasTop.depth))
    /\ LET material == scene.primitives[AliasTop.prim].material
       IN  \E prob \in RandomVals, fresnel \in ReflectanceVals(material.material_data) :
             frames' = Append(
                 [frames EXCEPT ![Len(frames)] =
                     [@ EXCEPT !.pc = "wait",
                               !.branch = SampleBranch(material, prob, fresnel)]],
                 AliasFrame(AliasTop.depth + 1))
    /\ UNCHANGED <<params, scene, pc, sample, pix, output, stack, last, raised, heap>>
    /\ UNCHANGED <<tileVars, imageVars, workerVars, call>>

\* return material.totalEmission(...): AttributeError, as in RadianceEmit
AliasEmit ==
    /\ pc = "render"
    /\ frames # <<>>
    /\ AliasTop.pc = "loop"
    /\ AliasTop.cell > Len(SampleCells(params, AliasTop.depth))
    /\ "totalEmission" \notin MaterialMethods
    /\ pc' = "error"
    /\ raised' = "AttributeError"
    /\ frames' = <<>>
    /\ UNCHANGED <<params, scene, sample, pix, output, stack, last, heap>>
    /\ UNCHANGED <<tileVars, imageVars, workerVars, call>>

\* The renders explored: images of one or two pixel columns and rows, one
\* or two passes, depth limits 0 to 2, one or two first-bounce samples
AliasParams ==
    [width : {1, 2}, height : {1, 2}, samples_per_pixel : {1, 2},
     max_depth : {0, 1, 2}, first_bounce_u_samples : {1, 2},
     first_bounce_v_samples : {1, 2}, preview : BOOLEAN]

AliasInit ==
    /\ params \in AliasParams
    /\ scene \in Scenes
    /\ pc = "idle"
    /\ sample = 0
    /\ pix = 0
    /\ output = AccumulableImage(0, 0)
    /\ stack = <<>>
    /\ last = NoCall
    /\ raised = "none"
    /\ heap = <<>>
    /\ frames = <<>>
    /\ TilesIdle
    /\ ImagesIdle
    /\ WorkersIdle
    /\ call = NoApply

AliasNext ==
    \/ AliasRenderBegin
    \/ AliasGetRay
    \/ AliasRenderFinish
    \/ AliasLimit
    \/ AliasMiss
    \/ AliasPreview
    \/ AliasHit
    \/ AliasSample
    \/ AliasEmit

AliasSpec == AliasInit /\ [][AliasNext]_vars


----------------------------------------------------------------------------
(* Vec3 objects and their arrays.  heap[n] holds the components of the     *)
(* numpy array n; a Vec3 is the reference n of its _arr.  Two operands a   *)
(* (array 1) and b (array 2) exist; an operation returns a Vec3, which is  *)
(* then changed in place.  The operands are such that every quotient and   *)
(* length is an integer.                                                   *)

\* x / y for a divisor of x
Div(x, y) == IF y < 0 THEN (-x) \div (-y) ELSE x \div y

VDivScalar(a, s) == <<Div(a[1], s), Div(a[2], s), Div(a[3], s)>>

VDiv(a, b) == <<Div(a[1], b[1]), Div(a[2], b[2]), Div(a[3], b[3])>>

\* normal.reflect(incoming)
VReflect(normal, incoming) ==
    VSub(incoming, VScale(normal, 2 * Dot(normal, incoming)))

LeftOperands == {<<2, 0, 0>>, <<0, -4, 0>>}
RightOperands == {<<1, 2, -1>>, <<-1, 1, 2>>}
Scalar == 2

ValueOps == {"pos", "neg", "add", "sub", "mul_scalar", "mul_vec", "div_scalar",
             "div_vec", "copy", "cross", "reflect", "normalised"}

\* The components of the array an operation on a and b computes
Vec3Value(op, a, b) ==
    CASE op = "neg" -> VNeg(a)
      [] op = "add" -> VAdd(a, b)
      [] op = "sub" -> VSub(a, b)
      [] op = "mul_scalar" -> VScale(a, Scalar)
      [] op = "mul_vec" -> VMul(a, b)
      [] op = "div_scalar" -> VDivScalar(a, Scalar)
      [] op = "div_vec" -> VDiv(a, b)
      [] op = "copy" -> a
      [] op = "cross" -> Cross(a, b)
      [] op = "reflect" -> VReflect(a, b)
      [] op = "normalised" -> VDivScalar(a, ISqrt(Dot(a, a)))

\* The operation on the Vec3 objects 1 and 2 of the heap hp: the heap
\* afterwards and the reference of the Vec3 returned.  __pos__ returns self;
\* every other operation wraps the new array numpy computes.
Vec3Op(op, hp) ==
    IF op = "pos" THEN [heap |-> hp, ref |-> 1]
    ELSE [heap |-> Append(hp, Vec3Value(op, hp[1], hp[2])), ref |-> Len(hp) + 1]

InPlaceOps == {"iadd", "isub", "imul_scalar", "imul_vec", "idiv_scalar", "setitem"}

\* The components of the left operand after an in-place operator
InPlaceValue(op, left, right) ==
    CASE op = "iadd" -> VAdd(left, right)
      [] op = "isub" -> VSub(left, right)
      [] op = "imul_scalar" -> VScale(left, Scalar)
      [] op = "imul_vec" -> VMul(left, right)
      [] op = "idiv_scalar" -> VDivScalar(left, -1)
      [] op = "setitem" -> Vec3SetItem(left, 0, 7).vec

VectorsInit ==
    /\ RenderIdle
    /\ TilesIdle
    /\ ImagesIdle
    /\ WorkersIdle
    /\ frames = <<>>
    /\ \E a \in LeftOperands, b \in RightOperands :
          /\ heap = <<a, b>>
          /\ call = [op |-> "Vec3", state |-> "created", a |-> a, b |-> b]

\* r = +a, -a, a + b, ...
Vec3Operate ==
    /\ call.op = "Vec3"
    /\ call.state = "created"
    /\ \E op \in ValueOps :
          LET done == Vec3Op(op, heap)
          IN  /\ heap' = done.heap
              /\ call' = [op |-> "Vec3", state |-> "operated", a |-> call.a,
                          b |-> call.b, operation |-> op, result |-> done.ref,
                          value |-> done.heap[done.ref]]
    /\ UNCHANGED <<renderVars, tileVars, imageVars, workerVars, frames>>

\* r += b, r -= b, r *= s, r *= b, r /= s, r[0] = 7 on the Vec3 returned
Vec3Mutate ==
    /\ call.op = "Vec3"
    /\ call.state = "operated"
    /\ \E op \in InPlaceOps :
          /\ heap' = [heap EXCEPT ![call.result] = InPlaceValue(op, @, heap[2])]
          /\ call' = [op |-> "Vec3", state |-> "mutated", a |-> call.a,
                      b |-> call.b, operation |-> call.operation,
                      result |-> call.result, value |-> call.value,
                      mutation |-> op]
    /\ UNCHANGED <<renderVars, tileVars, imageVars, workerVars, frames>>

\* a += b, ... on the operand a itself
Vec3MutateOperand ==
    /\ call.op = "Vec3"
    /\ call.state = "created"
    /\ \E op \in InPlaceOps :
          /\ heap' = [heap EXCEPT ![1] = InPlaceValue(op, @, heap[2])]
          /\ call' = [op |-> "Vec3", state |-> "assigned", a |-> call.a,
                      b |-> call.b, mutation |-> op]
    /\ UNCHANGED <<renderVars, tileVars, imageVars, workerVars, frames>>

VectorsNext ==
    \/ Vec3Operate
    \/ Vec3Mutate
    \/ Vec3MutateOperand

VectorsSpec == VectorsInit /\ [][VectorsNext]_vars


----------------------------------------------------------------------------
(* The random draws of one ray: Camera.get_ray, then Renderer.radiance on  *)
(* the ray.  Every call of random.random() or random.uniform() is a step   *)
(* that appends its label to the log of the ray; the call of               *)
(* material.sample is logged too.  call holds the camera, the position in  *)
(* get_ray and the log; frames holds the calls of radiance in progress.    *)

\* Camera.set_focus
set_focus(camera, focal_pt, aperture_radius) ==
    [camera EXCEPT !.focal_distance = ISqrt(Dot(VSub(focal_pt, camera.position),
                                                VSub(focal_pt, camera.position))),
                   !.aperture_radius = aperture_radius]

\* Variant: the aperture is sampled for every ray
ApertureDrawsAlways(aperture_radius) == <<"aperture_angle", "aperture_radius">>

\* _ray_from_unit: the draws made for an aperture radius
ApertureDraws(aperture_radius) ==
    IF aperture_radius = 0 THEN <<>> ELSE <<"aperture_angle", "aperture_radius">>

\* get_ray: the draws made before _ray_from_unit
JitterDraws == <<"jitter_x", "jitter_y">>

\* The draws of one pass of the sampling loop of radiance
SubsampleDraws == <<"u_offset", "v_offset", "prob">>

DrawEvent(label, id, cell) == [kind |-> "draw", label |-> label, id |-> id, cell |-> cell]

SampleEvent(id, cell) == [kind |-> "sample", label |-> "material.sample", id |-> id,
                          cell |-> cell]

\* A call of radiance in progress: id numbers the calls made for the ray
DrawFrame(id, depth) == [id |-> id, depth |-> depth, pc |-> "enter", cell |-> 1, drawn |-> 0]

\* Cameras at the origin looking along z, in focus on (0, 0, 2), with and
\* without an aperture
DrawCameras ==
    {set_focus(Camera(Vec3Zero, <<0, 0, 1>>, FVec(versor(1))).value, <<0, 0, 2>>, r) :
         r \in {0, 1}}

DrawParams ==
    [width : {1}, height : {1}, samples_per_pixel : {1}, max_depth : {0, 1, 2},
     first_bounce_u_samples : {1, 2}, first_bounce_v_samples : {1, 2},
     preview : BOOLEAN]

DrawsInit ==
    /\ params \in DrawParams
    /\ scene \in Scenes
    /\ pc = "idle"
    /\ sample = 0
    /\ pix = 0
    /\ output = AccumulableImage(0, 0)
    /\ stack = <<>>
    /\ last = NoCall
    /\ raised = "none"
    /\ heap = <<>>
    /\ frames = <<>>
    /\ TilesIdle
    /\ ImagesIdle
    /\ WorkersIdle
    /\ \E camera \in DrawCameras :
          call = [op |-> "Camera.get_ray", state |-> "jitter", camera |-> camera,
                  drawn |-> 0, lens |-> <<>>, log |-> <<>>, calls |-> 0,
                  origin |-> <<>>]

DrawsUnchanged == UNCHANGED <<renderVars, tileVars, imageVars, workerVars, heap>>

\* get_ray: xxx = (px_x + random.random()) * ..., then yyy likewise
DrawJitter ==
    /\ call.op = "Camera.get_ray"
    /\ call.state = "jitter"
    /\ call.drawn < Len(JitterDraws)
    /\ call' = [call EXCEPT !.drawn = @ + 1,
                            !.log = Append(@, DrawEvent(JitterDraws[call.drawn + 1], 0, 0))]
    /\ UNCHANGED frames
    /\ DrawsUnchanged

\* _ray_from_unit is entered with both jitters drawn
RayFromUnit ==
    /\ call.op = "Camera.get_ray"
    /\ call.state = "jitter"
    /\ call.drawn = Len(JitterDraws)
    /\ call' = [call EXCEPT !.state = "aperture", !.drawn = 0]
    /\ UNCHANGED frames
    /\ DrawsUnchanged

\* angle = random.uniform(0, 2 pi), then radius = random.uniform(0,
\* aperture_radius): the angle drawn is 0 or a quarter turn, the radius 0 or
\* the aperture radius
DrawAperture ==
    /\ call.op = "Camera.get_ray"
    /\ call.state = "aperture"
    /\ call.drawn < Len(ApertureDraws(call.camera.aperture_radius))
    /\ \E value \in {0, 1} :
          call' = [call EXCEPT
                     !.drawn = @ + 1,
                     !.lens = Append(@, value),
                     !.log = Append(@, DrawEvent(
                                 ApertureDraws(call.camera.aperture_radius)[call.drawn + 1],
                                 0, 0))]
    /\ UNCHANGED frames
    /\ DrawsUnchanged

\* The origin of the ray: the position of the camera, or the point of the
\* lens at the angle and radius drawn
RayOrigin(camera, lens) ==
    IF lens = <<>> THEN camera.position
    ELSE LET axis == IF lens[1] = 0 THEN camera.basis.x_axis.num
                     ELSE camera.basis.y_axis.num
         IN  VAdd(camera.position, VScale(axis, lens[2] * camera.aperture_radius))

\* get_ray returns the ray; render calls self.radiance(ray, 0)
GetRayReturn ==
    /\ call.op = "Camera.get_ray"
    /\ call.state = "aperture"
    /\ call.drawn = Len(ApertureDraws(call.camera.aperture_radius))
    /\ call' = [call EXCEPT !.op = "Renderer.radiance", !.state = "running",
                            !.origin = RayOrigin(call.camera, call.lens),
                            !.calls = 1]
    /\ frames' = <<DrawFrame(1, 0)>>
    /\ DrawsUnchanged

DrawTop == frames[Len(frames)]

\* The call on top of the stack returns: the sampling loop of its caller goes
\* on, or radiance(ray, 0) has returned
DrawPop ==
    IF Len(frames) = 1
    THEN /\ frames' = <<>>
         /\ call' = [call EXCEPT !.state = "returned"]
    ELSE /\ frames' = [SubSeq(frames, 1, Len(frames) - 1) EXCEPT
                          ![Len(frames) - 1] = [@ EXCEPT !.pc = "loop", !.cell = @ + 1,
                                                         !.drawn = 0]]
         /\ call' = call

\* radiance returns without sampling: depth limit, no hit, or preview
RadianceReturnEarly ==
    /\ call.op = "Renderer.radiance"
    /\ frames # <<>>
    /\ DrawTop.pc = "enter"
    /\ \/ DepthLimit(params, DrawTop.depth)
       \/ /\ ~DepthLimit(params, DrawTop.depth)
          /\ \E ray \in Rays(scene) :
                \/ ~SceneIntersectEx(scene, ray).hit
                \/ SceneIntersectEx(scene, ray).hit /\ params.preview
    /\ DrawPop
    /\ DrawsUnchanged

\* a hit without preview: the sampling loop is entered
RadianceLoop ==
    /\ call.op = "Renderer.radiance"
    /\ frames # <<>>
    /\ DrawTop.pc = "enter"
    /\ ~DepthLimit(params, DrawTop.depth)
    /\ ~params.preview
    /\ \E ray \in Rays(scene) : SceneIntersectEx(scene, ray).hit
    /\ frames' = [frames EXCEPT ![Len(frames)] = [@ EXCEPT !.pc = "loop"]]
    /\ UNCHANGED call
    /\ DrawsUnchanged

\* u_pos = (u_ix + random.random()) / u_samples, v_pos likewise, then
\* prob = random.random()
DrawSubsample ==
    /\ call.op = "Renderer.radiance"
    /\ frames # <<>>
    /\ DrawTop.pc = "loop"
    /\ DrawTop.cell <= Len(SampleCells(params, DrawTop.depth))
    /\ DrawTop.drawn < Len(SubsampleDraws)
    /\ frames' = [frames EXCEPT ![Len(frames)] = [@ EXCEPT !.drawn = @ + 1]]
    /\ call' = [call EXCEPT !.log = Append(@, DrawEvent(SubsampleDraws[DrawTop.drawn + 1],
                                                       DrawTop.id, DrawTop.cell))]
    /\ DrawsUnchanged

\* material.sample(hit, ray, sampler, u_pos, v_pos, prob): the sampler calls
\* radiance(new ray, depth + 1)
SampleMaterial ==
    /\ call.op = "Renderer.radiance"
    /\ frames # <<>>
    /\ DrawTop.pc = "loop"
    /\ DrawTop.cell <= Len(SampleCells(params, DrawTop.depth))
    /\ DrawTop.drawn = Len(SubsampleDraws)
    /\ frames' = Append([frames EXCEPT ![Len(frames)] = [@ EXCEPT !.pc = "wait"]],
                        DrawFrame(call.calls + 1, DrawTop.depth + 1))
    /\ call' = [call EXCEPT !.calls = @ + 1,
                            !.log = Append(@, SampleEvent(DrawTop.id, DrawTop.cell))]
    /\ DrawsUnchanged

\* the loop is over: material.totalEmission raises AttributeError
RadianceRaise ==
    /\ call.op = "Renderer.radiance"
    /\ frames # <<>>
    /\ DrawTop.pc = "loop"
    /\ DrawTop.cell > Len(SampleCells(params, DrawTop.depth))
    /\ "totalEmission" \notin MaterialMethods
    /\ frames' = <<>>
    /\ call' = [call EXCEPT !.state = "AttributeError"]
    /\ DrawsUnchanged

DrawsNext ==
    \/ DrawJitter
    \/ RayFromUnit
    \/ DrawAperture
    \/ GetRayReturn
    \/ RadianceReturnEarly
    \/ RadianceLoop
    \/ DrawSubsample
    \/ SampleMaterial
    \/ RadianceRaise

DrawsSpec == DrawsInit /\ [][DrawsNext]_vars


Init ==
    /\ params \in ParamSets
    /\ scene \in Scenes
    /\ pc = "idle"
    /\ sample = 0
    /\ pix = 0
    /\ output = AccumulableImage(0, 0)
    /\ stack = <<>>
    /\ last = NoCall
    /\ raised = "none"
    /\ TilesIdle
    /\ ExtIdle

Next ==
    \/ RenderBegin
    \/ CameraGetRay
    \/ RenderFinish
    \/ RadianceLimit
    \/ RadianceMiss
    \/ RadiancePreview
    \/ RadianceHit
    \/ MaterialSample
    \/ RadianceEmit

Spec == Init /\ [][Next]_vars

\* One call radiance(ray, 0) and the calls nested in it: render of a
\* one-pixel, one-pass image, for every depth limit and first-bounce sample
\* count.  render is a sequential program: a step that can be taken is taken.
RadianceInit ==
    /\ Init
    /\ params.width = 1
    /\ params.height = 1
    /\ params.samples_per_pixel = 1

FairSpec == RadianceInit /\ [][Next]_vars /\ WF_vars(Next)

----------------------------------------------------------------------------
(* Properties of render and radiance *)

Frames == {stack[i] : i \in 1..Len(stack)}

LoopFinished(fr) == fr.pc = "loop" /\ fr.cell > Len(SampleCells(params, fr.depth))

Misses(ray) == \A k \in DOMAIN ray : ray[k] = NoHit

\* k is a primitive the ray hits, and no primitive is hit nearer
Nearest(ray, k) ==
    /\ ray[k] # NoHit
    /\ \A j \in DOMAIN ray : ray[j] # NoHit => ray[k] <= ray[j]

\* C1: after render() completes, every pixel of the width x height image has
\* received exactly samples_per_pixel samples, and total_sample_count() is
\* width * height * samples_per_pixel.
C1_EveryPixelSampled ==
    pc = "done" =>
        /\ \A p \in Pixels(params.width, params.height) :
               output.sample_counts[p] = params.samples_per_pixel
        /\ total_sample_count(output) =
               params.width * params.height * params.samples_per_pixel

\* C2: rendering the one-sphere scene (diffuse, non-emissive material, black
\* environment) with max_depth = 1 and preview off completes without error,
\* and every pixel reads radiance 0 (hit) or the environment colour (miss),
\* which is black too.
C2_SphereRenders ==
    (scene = SphereScene /\ params.max_depth = 1 /\ ~params.preview) =>
        /\ pc # "error"
        /\ pc = "done" =>
               \A p \in Pixels(params.width, params.height) :
                   output.image[p] = scene.environment_colour

\* C3: when the sampling loop of radiance(ray, d) is over, material.sample was
\* invoked once for every cell (i, j), 0 <= i < N, 0 <= j < M, at d = 0 (N * M
\* times) and once at d > 0, each time with a sampler bound to depth d + 1.
C3_SamplesPerCell ==
    /\ \A fr \in Frames : LoopFinished(fr) =>
           LET n == IF fr.depth = 0 THEN params.first_bounce_u_samples ELSE 1
               m == IF fr.depth = 0 THEN params.first_bounce_v_samples ELSE 1
           IN  /\ Len(fr.cells) = n * m
               /\ {fr.cells[i] : i \in 1..Len(fr.cells)} = (0..(n - 1)) \X (0..(m - 1))
    /\ \A i \in 2..Len(stack) : stack[i].depth = stack[i - 1].depth + 1

\* C4: the radiance call whose sampling loop is over returns normally, and
\* its value is emission + (sum of the sample results) / (number of samples).
C4_EmissionPlusAverage ==
    [][(stack # <<>> /\ LoopFinished(Top)) =>
          LET n == Len(Top.cells)
              md == scene.primitives[Top.prim].material.material_data
          IN  /\ pc' = "render"
              /\ last'.kind = "hit"
              /\ VScale(last'.value, n) = VAdd(VScale(md.emission, n), Top.result)]_vars

\* C5 (safety part): no radiance call is nested deeper than max_depth, a
\* nested call is one level deeper than its caller, and a call at depth >=
\* max_depth returns zero without intersecting, sampling or drawing.
C5_DepthBounded ==
    /\ \A fr \in Frames : fr.depth <= params.max_depth
    /\ \A i \in 2..Len(stack) : stack[i].depth = stack[i - 1].depth + 1
    /\ \A fr \in Frames : fr.depth >= params.max_depth =>
           fr.pc = "enter" /\ ~fr.intersected /\ fr.cells = <<>>
    /\ (last.kind # "none" /\ last.depth >= params.max_depth) =>
           /\ last.value = Vec3Zero
           /\ ~last.intersected
           /\ last.cells = <<>>
           /\ last.draws = 0

\* C5: every call of radiance terminates (the call stack empties again), and
\* the depth of the calls stays bounded as C5_DepthBounded says.
C5_RadianceTerminates ==
    /\ []C5_DepthBounded
    /\ (stack # <<>>) ~> (stack = <<>>)

C5_Witness ==
    /\ last.kind = "limit"
    /\ last.depth = params.max_depth
    /\ last.depth > 1
    /\ stack # <<>>

\* C6: below max_depth, radiance on a ray that intersects no primitive
\* returns the environment colour, samples no material and draws no random
\* number, with preview on or off.
C6_MissReturnsEnvironment ==
    /\ (last.kind # "none" /\ last.depth < params.max_depth /\ Misses(last.ray)) =>
           /\ last.value = scene.environment_colour
           /\ last.cells = <<>>
           /\ last.draws = 0

C6_Witness ==
    /\ last.kind = "miss"
    /\ last.depth > 0
    /\ Misses(last.ray)
    /\ scene.environment_colour # Vec3Zero

\* C7: with preview set and below max_depth, radiance on a ray that hits a
\* primitive returns the diffuse colour of a nearest hit material, and makes
\* no call of material.sample, no nested radiance call and no random draw.
C7_PreviewReturnsDiffuse ==
    /\ (last.kind # "none" /\ params.preview /\ last.depth < params.max_depth
            /\ ~Misses(last.ray)) =>
           /\ \E k \in DOMAIN last.ray :
                  /\ Nearest(last.ray, k)
                  /\ last.value = scene.primitives[k].material.material_data.diffuse
           /\ last.cells = <<>>
           /\ last.draws = 0
    /\ params.preview => (Len(stack) <= 1 /\ \A fr \in Frames : fr.pc = "enter")

C7_Witness ==
    /\ params.preview
    /\ last.kind = "preview"
    /\ Len(last.ray) = 2
    /\ last.ray[1] # NoHit
    /\ last.ray[2] # NoHit
    /\ last.ray[2] < last.ray[1]

----------------------------------------------------------------------------
(* Properties of generate_tiles *)

TileIndex == 1..Len(tiles)

Covers(t, x, y, s) ==
    /\ t.x_range[1] <= x /\ x < t.x_range[2]
    /\ t.y_range[1] <= y /\ y < t.y_range[2]
    /\ t.sample_ix <= s /\ s < t.sample_ix + t.samples

\* C8: with positive tile sizes and samples per tile and explicit width,
\* height and sample_count, every (x, y, s) of the image and sample budget
\* lies in exactly one tile; no tile is empty and none extends outside the
\* image or the sample budget.
C8_TilesPartition ==
    tpc = "done" =>
        /\ \A x \in 0..(targs.width - 1), y \in 0..(targs.height - 1),
              s \in 0..(targs.sample_count - 1) :
                Cardinality({i \in TileIndex : Covers(tiles[i], x, y, s)}) = 1
        /\ \A i \in TileIndex :
              /\ 0 <= tiles[i].x_range[1]
              /\ tiles[i].x_range[1] < tiles[i].x_range[2]
              /\ tiles[i].x_range[2] <= targs.width
              /\ 0 <= tiles[i].y_range[1]
              /\ tiles[i].y_range[1] < tiles[i].y_range[2]
              /\ tiles[i].y_range[2] <= targs.height
              /\ 0 <= tiles[i].sample_ix
              /\ tiles[i].samples >= 1
              /\ tiles[i].sample_ix + tiles[i].samples <= targs.sample_count

C8_Witness ==
    /\ tpc = "done"
    /\ targs.width = 3 /\ targs.x_size = 2
    /\ targs.height = 2 /\ targs.y_size = 1
    /\ targs.sample_count = 2 /\ targs.samples_per_tile = 1
    /\ Len(tiles) = 8

\* C9: consecutive tiles of the returned list do not decrease in
\* (sample_ix, dist_prio), rand_prio breaks the remaining ties, and every tile
\* of a sample level comes before every tile of a higher level.
C9_TilesOrdered ==
    tpc = "done" =>
        /\ \A i \in TileIndex : i < Len(tiles) =>
              LET a == tiles[i]
                  b == tiles[i + 1]
              IN  /\ a.sample_ix <= b.sample_ix
                  /\ a.sample_ix = b.sample_ix => a.dist_prio <= b.dist_prio
                  /\ (a.sample_ix = b.sample_ix /\ a.dist_prio = b.dist_prio) =>
                         a.rand_prio <= b.rand_prio
        /\ \A i, j \in TileIndex : tiles[i].sample_ix < tiles[j].sample_ix => i < j

C9_Witness ==
    /\ tpc = "done"
    /\ \E i, j, k \in TileIndex :
          /\ i < j /\ j < k
          /\ tiles[i].sample_ix = tiles[j].sample_ix
          /\ tiles[i].dist_prio = tiles[j].dist_prio
          /\ tiles[i].rand_prio < tiles[j].rand_prio
          /\ tiles[j].sample_ix < tiles[k].sample_ix
          /\ tiles[k].dist_prio < tiles[j].dist_prio

\* Four times the squared distance between the midpoint of the pixel
\* rectangle of tile t and the image centre
MidDist4(t) ==
    LET dx == t.x_range[1] + t.x_range[2] - targs.width
        dy == t.y_range[1] + t.y_range[2] - targs.height
    IN  dx * dx + dy * dy

\* C10 (ordering part): within a sample level, a tile whose midpoint is
\* strictly nearer to the image centre is never placed after a tile whose
\* midpoint is strictly farther.
C10_NearerNeverLater ==
    tpc = "done" =>
        \A i, j \in TileIndex :
            (i < j /\ tiles[i].sample_ix = tiles[j].sample_ix) =>
                MidDist4(tiles[i]) <= MidDist4(tiles[j])

\* C10: every tile's dist_prio is the squared distance between the midpoint
\* of its pixel rectangle and the image centre, so that within a sample
\* level the tiles are ordered centre first.
C10_CentreFirst ==
    /\ tpc = "done" => \A i \in TileIndex : 4 * tiles[i].dist_prio = MidDist4(tiles[i])
    /\ C10_NearerNeverLater

----------------------------------------------------------------------------
(* AccumulableImage: reads and merges *)

\* The calls of a history that went to one pixel
CallsAt(log, pos) == SelectSeq(log, LAMBDA c : c.pos = pos)

RECURSIVE WeightedSum(_)
WeightedSum(log) ==
    IF log = <<>> THEN Vec3Zero
    ELSE VAdd(VScale(Head(log).colour, Head(log).count), WeightedSum(Tail(log)))

RECURSIVE CountSum(_)
CountSum(log) == IF log = <<>> THEN 0 ELSE Head(log).count + CountSum(Tail(log))

\* C11: after any sequence of add_samples calls with non-negative counts a
\* read of a pixel returns the sum of colour * count over the calls on that
\* pixel divided by max(1, sum of the counts); the divisor is never zero, and
\* a pixel no call touched reads as the zero colour with a count of 0.
C11_WeightedAverage ==
    ilast.op = "getitem" =>
        LET calls == CallsAt(ilog[ilast.i], ilast.pos)
        IN  /\ ilast.value.den >= 1
            /\ FracEq(ilast.value, [num |-> WeightedSum(calls),
                                    den |-> Max(1, CountSum(calls))])
            /\ imgs[ilast.i].sample_counts[ilast.pos] = CountSum(calls)
            /\ calls = <<>> =>
                   /\ ilast.value = [num |-> Vec3Zero, den |-> 1]
                   /\ imgs[ilast.i].sample_counts[ilast.pos] = 0

\* a pixel that got samples of two colours, three samples or more in all,
\* has been read
C11_Witness ==
    /\ ilast.op = "getitem"
    /\ LET calls == CallsAt(ilog[ilast.i], ilast.pos)
       IN  /\ Len(calls) >= 2
           /\ calls[1].colour # calls[2].colour
           /\ calls[1].count # calls[2].count
           /\ calls[1].count > 0 /\ calls[2].count > 0
           /\ CountSum(calls) >= 3

\* Two histories made of the same calls (whichever image they were made on)
SameCalls(l1, l2) ==
    /\ Len(l1) = Len(l2)
    /\ \A k \in 1..Len(l1) :
           /\ l1[k].pos = l2[k].pos
           /\ l1[k].colour = l2[k].colour
           /\ l1[k].count = l2[k].count

\* C12: a += b on two images of identical dimensions sets, for every pixel,
\* a's sum to a.sum + b.sum and a's count to a.count + b.count and leaves b
\* (and every other image) unchanged; when a and b have equal histories the
\* sums and counts of a double and every read of a gives what it gave
\* before.  When the dimensions differ the merge fails and no image is
\* modified.
C12_MergeAddsSumsAndCounts ==
    [][ (ilast'.op = "iadd" /\ ilast'.merges = ilast.merges + 1) =>
          LET i == ilast'.i
              j == ilast'.j
          IN  IF SameSize(imgs[i], imgs[j])
              THEN /\ ilast'.ok
                   /\ \A p \in DOMAIN imgs[i].image :
                          /\ imgs'[i].image[p] = VAdd(imgs[i].image[p], imgs[j].image[p])
                          /\ imgs'[i].sample_counts[p] =
                                 imgs[i].sample_counts[p] + imgs[j].sample_counts[p]
                   /\ \A k \in DOMAIN imgs : k # i => imgs'[k] = imgs[k]
                   /\ (i # j /\ SameCalls(ilog[i], ilog[j])) =>
                          \A p \in DOMAIN imgs[i].image :
                              /\ imgs'[i].image[p] = VScale(imgs[i].image[p], 2)
                              /\ imgs'[i].sample_counts[p] = 2 * imgs[i].sample_counts[p]
                              /\ FracEq(getitem(imgs'[i], p), getitem(imgs[i], p))
              ELSE /\ ~ilast'.ok
                   /\ imgs' = imgs ]_vars

\* an image holding samples on every pixel has been merged into another
\* image of the same history
C12_Witness ==
    /\ ilast.op = "iadd"
    /\ ilast.ok
    /\ ilast.merges = 1
    /\ ilast.i # ilast.j
    /\ Len(ilog[ilast.j]) >= 2
    /\ \A p \in DOMAIN imgs[ilast.j].image : imgs[ilast.j].sample_counts[p] > 0
    /\ \A p \in DOMAIN imgs[ilast.i].image :
           imgs[ilast.i].sample_counts[p] = 2 * imgs[ilast.j].sample_counts[p]

\* The call of a history entry, without the image it was made on
CallOf(c) == [pos |-> c.pos, colour |-> c.colour, count |-> c.count]

\* Two histories made of the same calls, in any order
SameBag(l1, l2) ==
    /\ Len(l1) = Len(l2)
    /\ \A k \in 1..Len(l1) :
           Cardinality({n \in 1..Len(l1) : CallOf(l1[n]) = CallOf(l1[k])})
               = Cardinality({n \in 1..Len(l2) : CallOf(l2[n]) = CallOf(l1[k])})

\* C13: the merge is commutative and associative: whatever the order and
\* the grouping of the merges that brought the partial images together, an
\* image holds the sums and counts of a single image that received all the
\* add_samples calls merged into it, and two images of one size built from
\* the same calls in different orders hold the same sums and counts.
C13_MergeOrderIrrelevant ==
    /\ \A i \in DOMAIN imgs :
           LET single == Replay(AccumulableImage(imgs[i].width, imgs[i].height), ilog[i])
           IN  /\ imgs[i].image = single.image
               /\ imgs[i].sample_counts = single.sample_counts
               /\ \A p \in DOMAIN imgs[i].image :
                      /\ imgs[i].image[p] = WeightedSum(CallsAt(ilog[i], p))
                      /\ imgs[i].sample_counts[p] = CountSum(CallsAt(ilog[i], p))
    /\ \A i, j \in DOMAIN imgs :
           (SameSize(imgs[i], imgs[j]) /\ SameBag(ilog[i], ilog[j])) =>
               /\ imgs[i].image = imgs[j].image
               /\ imgs[i].sample_counts = imgs[j].sample_counts

\* two images got the same partial histories merged in opposite orders
C13_Witness ==
    \E i, j \in DOMAIN imgs :
        /\ i # j
        /\ SameSize(imgs[i], imgs[j])
        /\ SameBag(ilog[i], ilog[j])
        /\ ilog[i] # <<>>
        /\ ~SameCalls(ilog[i], ilog[j])
        /\ \E p \in DOMAIN imgs[i].image : imgs[i].sample_counts[p] >= 3

----------------------------------------------------------------------------
(* add_samples from two workers *)

\* C14: two workers call add_samples on one image, each on its own pixels,
\* every call being a read and a write of the colour sum and then a read and
\* a write of the sample count: whenever no call is under way (so at the end
\* of every interleaving) the image is the one the calls give when run one
\* after the other; no update of a sum or of a count is lost.
C14_NoLostUpdate ==
    (\A w \in Workers : workers[w].pc = "idle") =>
        /\ shared.image = sequential.image
        /\ shared.sample_counts = sequential.sample_counts

\* both workers have made all their calls, and each of them wrote between
\* the read and the write of the other
C14_Witness ==
    /\ \A w \in Workers : workers[w].pc = "idle" /\ workers[w].done = MaxCalls
    /\ \A w \in Workers : workers[w].mixed
    /\ \A w \in Workers : \E p \in OwnPixels(w) : shared.sample_counts[p] >= 2

----------------------------------------------------------------------------
(* Scene.intersect_ex *)

\* The primitives that report a hit, and those that report one at a finite
\* distance
Reporting(ray) == {k \in DOMAIN ray : ray[k] # NoHit}
ReportingFinite(ray) == {k \in DOMAIN ray : ray[k] # NoHit /\ ray[k] < InfDist}

\* C15: Scene.intersect_ex returns None exactly when no primitive reports a
\* hit at a finite distance (the empty scene included); otherwise it returns
\* the hit record and the material of the primitive whose distance is the
\* minimum over the primitives that report a hit, the earliest added among
\* those at the minimum.
C15_NearestEarliestHit ==
    (call.op = "Scene.intersect_ex" /\ call.state = "returned") =>
        LET ray == call.ray
            res == call.result
        IN  /\ res.hit <=> ReportingFinite(ray) # {}
            /\ res.hit =>
                   /\ res.prim \in Reporting(ray)
                   /\ res.distance = ray[res.prim]
                   /\ \A k \in Reporting(ray) : res.distance <= ray[k]
                   /\ \A k \in Reporting(ray) : ray[k] = res.distance => res.prim <= k
                   /\ call.material = call.scene.primitives[res.prim].material

\* a scan over three primitives: the first misses, the other two hit at the
\* same distance
C15_Witness ==
    /\ call.op = "Scene.intersect_ex"
    /\ call.state = "returned"
    /\ Len(call.ray) >= 3
    /\ call.ray[1] = NoHit
    /\ call.ray[2] = call.ray[3]
    /\ call.result.hit
    /\ call.result.prim = 2

----------------------------------------------------------------------------
(* Sphere.intersect *)

SphereReturned == call.op = "Sphere.intersect" /\ call.state = "returned"

\* |origin - centre|^2
OriginDistSqr(sph, ray) ==
    Dot(VSub(ray.origin, sph.centre), VSub(ray.origin, sph.centre))

\* The ray points from its origin at the centre: centre - origin is a
\* positive multiple of the direction (the multiple is |origin - centre|)
AimedAtCentre(sph, ray) ==
    /\ Dot(VSub(sph.centre, ray.origin), ray.direction) > 0
    /\ VSub(sph.centre, ray.origin)
           = VScale(ray.direction, Dot(VSub(sph.centre, ray.origin), ray.direction))

\* The ray runs along the line through the centre and heads away from it, or
\* starts at the centre (the multiple is |origin - centre|)
AwayFromCentre(sph, ray) ==
    /\ Dot(VSub(ray.origin, sph.centre), ray.direction) >= 0
    /\ VSub(ray.origin, sph.centre)
           = VScale(ray.direction, Dot(VSub(ray.origin, sph.centre), ray.direction))

\* C16: for a ray whose origin is outside the sphere: aimed at the centre,
\* Sphere.intersect returns a hit at distance |origin - centre| - radius with
\* is_inside false and the normal equal to the negated direction; when the
\* line of the ray does not meet the sphere, or the sphere is entirely
\* behind the origin, it returns None.
C16_OutsideHit ==
    SphereReturned =>
        LET sph == call.sphere
            ray == call.ray
            res == call.result
            b_coeff == Dot(VSub(sph.centre, ray.origin), ray.direction)
        IN  OriginDistSqr(sph, ray) > sph.radius * sph.radius =>
                /\ AimedAtCentre(sph, ray) =>
                       /\ res.hit
                       /\ res.distance = b_coeff - sph.radius
                       /\ ~res.is_inside
                       /\ FEqVec(res.normal, VNeg(ray.direction))
                /\ (SphereDiscr(sph, ray) < 0 \/ b_coeff < 0) => ~res.hit

\* C17: a ray from a point inside the sphere, along the line through the
\* centre and heading away from it or starting at the centre, hits at
\* distance radius - |origin - centre| with is_inside true and a returned
\* normal that points along the direction (normal . direction > 0).
C17_InsideHitNormalAlong ==
    SphereReturned =>
        LET sph == call.sphere
            ray == call.ray
            res == call.result
        IN  (OriginDistSqr(sph, ray) < sph.radius * sph.radius /\ AwayFromCentre(sph, ray)) =>
                /\ res.hit
                /\ res.distance = sph.radius - Dot(VSub(ray.origin, sph.centre), ray.direction)
                /\ res.is_inside
                /\ FDotPositive(res.normal, ray.direction)

\* C17 as the code has it: the hit is at distance radius - |origin - centre|
\* with is_inside true, and the returned normal is the negated direction: it
\* faces the ray (normal . direction < 0).
C17_InsideHitNormalAgainst ==
    SphereReturned =>
        LET sph == call.sphere
            ray == call.ray
            res == call.result
        IN  (OriginDistSqr(sph, ray) < sph.radius * sph.radius /\ AwayFromCentre(sph, ray)) =>
                /\ res.hit
                /\ res.distance = sph.radius - Dot(VSub(ray.origin, sph.centre), ray.direction)
                /\ res.is_inside
                /\ FDotNegative(res.normal, ray.direction)
                /\ FEqVec(res.normal, VNeg(ray.direction))

\* a ray from inside, off the centre, has hit the wall it heads for
C17_Witness ==
    /\ SphereReturned
    /\ OriginDistSqr(call.sphere, call.ray) < call.sphere.radius * call.sphere.radius
    /\ OriginDistSqr(call.sphere, call.ray) > 0
    /\ AwayFromCentre(call.sphere, call.ray)
    /\ call.result.hit
    /\ call.result.is_inside

\* C18: every hit record of Sphere.intersect has a normal that faces the ray
\* (normal . direction <= 0); is_inside is true exactly when the outward
\* normal at the hit point has a positive dot product with the direction,
\* and the returned normal is then the negated outward normal.
C18_NormalFacesRay ==
    (SphereReturned /\ call.result.hit) =>
        LET res == call.result
            outward == normalised(VSub(res.position, call.sphere.centre))
        IN  /\ FDotNotPositive(res.normal, call.ray.direction)
            /\ res.is_inside <=> FDotPositive(outward, call.ray.direction)
            /\ res.is_inside => res.normal = FNeg(outward)

----------------------------------------------------------------------------
(* Triangle.intersect *)

TriangleReturned == call.op = "Triangle.intersect" /\ call.state = "returned"

\* Equality of two quotients of integers
QuotEq(a, b) == a.num * b.den = b.num * a.den

\* C19: for a triangle built without vertex normals, exchanging the second
\* and the third vertex changes neither whether Triangle.intersect hits nor,
\* on a hit, the distance, the position and the returned normal; and the
\* returned normal always faces the ray (normal . direction < 0).
C19_WindingInvariant ==
    TriangleReturned =>
        LET res == call.result
            rew == call.rewound
        IN  /\ res.hit <=> rew.hit
            /\ res.hit =>
                   /\ QuotEq(res.distance, rew.distance)
                   /\ FracEq(res.position, rew.position)
                   /\ FEq(res.normal, rew.normal)
                   /\ FDotNegative(res.normal, call.ray.direction)
                   /\ FDotNegative(rew.normal, call.ray.direction)

\* a ray has hit a triangle strictly inside its face, from the side that is
\* the back face in the given winding
C19_Witness ==
    /\ TriangleReturned
    /\ call.result.hit
    /\ call.result.is_inside
    /\ ~call.rewound.is_inside
    /\ call.result.distance.num * call.result.distance.num
           # call.result.distance.den * call.result.distance.den

----------------------------------------------------------------------------
(* material_from_data and the branch of sample *)

MaterialReturned == call.op = "Material.sample" /\ call.state = "returned"

\* prob / 100 < q for a probability in percent and a quotient q
ProbBelow(prob, q) == prob * q.den < 100 * q.num

\* C20: material_from_data gives a ShinyMaterial exactly when reflectivity
\* >= 0 and a MatteMaterial otherwise.  A ShinyMaterial takes the specular
\* branch exactly when the draw is below the reflectivity: never for
\* reflectivity 0, always for reflectivity 1.  A MatteMaterial takes it
\* exactly when the draw is below the Fresnel reflectance for the indices
\* (1.0, refraction_index), taken in the opposite order when
\* hit_record.is_inside is true.
C20_MaterialKindAndBranch ==
    MaterialReturned =>
        LET md == call.material_data
            hr == call.hit_record
        IN  /\ call.material.kind = "shiny" <=> md.reflectivity >= 0
            /\ call.material.kind = "matte" <=> md.reflectivity < 0
            /\ call.material.material_data = md
            /\ call.material.kind = "shiny" =>
                   /\ call.branch = "specular" <=> call.prob < md.reflectivity
                   /\ md.reflectivity = 0 => call.branch = "diffuse"
                   /\ md.reflectivity = 100 => call.branch = "specular"
            /\ call.material.kind = "matte" =>
                   (call.branch = "specular" <=>
                        ProbBelow(call.prob,
                            reflectance(hr.cos,
                                        IF hr.is_inside THEN md.refraction_index ELSE 10,
                                        IF hr.is_inside THEN 10 ELSE md.refraction_index)))

\* a matte material hit from inside at an angle of total internal reflection
\* took the specular branch on a draw that is above the reflectance from
\* outside
C20_Witness ==
    /\ MaterialReturned
    /\ call.material.kind = "matte"
    /\ call.hit_record.is_inside
    /\ call.branch = "specular"
    /\ ReflectanceExact(call.hit_record.cos, 10, call.material_data.refraction_index)
    /\ ~ProbBelow(call.prob, reflectance(call.hit_record.cos, 10,
                                         call.material_data.refraction_index))

----------------------------------------------------------------------------
(* OrthonormalBasis *)

FromTwoDone ==
    /\ call.op = "OrthonormalBasis.from_two"
    /\ call.state \in {"returned", "transformed"}

\* Two unit vectors that are linearly independent
Independent(first, second) ==
    /\ FIsUnit(first)
    /\ FIsUnit(second)
    /\ Cross(first.num, second.num) # Vec3Zero

Orthonormal(basis) ==
    /\ FIsUnit(basis.x_axis)
    /\ FIsUnit(basis.y_axis)
    /\ FIsUnit(basis.z_axis)
    /\ FOrthogonal(basis.x_axis, basis.y_axis)
    /\ FOrthogonal(basis.x_axis, basis.z_axis)
    /\ FOrthogonal(basis.y_axis, basis.z_axis)

AxisIndex == ("x" :> 0) @@ ("y" :> 1) @@ ("z" :> 2)

\* C21 (as stated): for independent unit vectors first, second and a valid
\* axis pair ab, from_two(ab, first, second) is an orthonormal basis whose
\* transform maps the natural vector of axis a to first and that of axis b
\* to the second vector given.
C21_RecoversBothInputs ==
    (/\ FromTwoDone
     /\ call.axes \in DOMAIN THIRD_AXE
     /\ Independent(call.first, call.second))
        => /\ call.result.raised = "none"
           /\ Orthonormal(call.result.value)
           /\ call.state = "transformed"
                => /\ call.vec = versor(AxisIndex[call.axes[1]])
                        => FSame(call.image, call.first)
                   /\ call.vec = versor(AxisIndex[call.axes[2]])
                        => FSame(call.image, call.second)

\* C21 (amended): the basis is orthonormal and axis a maps to first; axis b
\* maps to the unit vector of the plane of first and second that is
\* orthogonal to first and on the side of second, which is the second
\* vector given exactly when first and second are orthogonal.
C21_RecoversOrthogonalInputs ==
    (/\ FromTwoDone
     /\ call.axes \in DOMAIN THIRD_AXE
     /\ Independent(call.first, call.second))
        => /\ call.result.raised = "none"
           /\ Orthonormal(call.result.value)
           /\ call.state = "transformed"
                => /\ call.vec = versor(AxisIndex[call.axes[1]])
                        => FSame(call.image, call.first)
                   /\ call.vec = versor(AxisIndex[call.axes[2]])
                        => /\ FIsUnit(call.image)
                           /\ FOrthogonal(call.image, call.first)
                           /\ Dot(call.image.num,
                                  Cross(call.first.num, call.second.num)) = 0
                           /\ Dot(call.image.num, call.second.num) > 0
                           /\ FSame(call.image, call.second)
                                <=> FOrthogonal(call.first, call.second)

\* from_two('zx', (-1,-1,-1) / sqrt(3), (1,1,-1) / sqrt(3)) of
\* test_onb_factories has returned and its x axis has been transformed back
C21_Witness ==
    /\ FromTwoDone
    /\ call.state = "transformed"
    /\ call.axes = <<"z", "x">>
    /\ call.first = normalised(<<-1, -1, -1>>)
    /\ call.second = normalised(<<1, 1, -1>>)
    /\ call.vec = versor(0)
    /\ ~FSame(call.image, call.second)
    /\ FOrthogonal(call.image, call.first)


----------------------------------------------------------------------------
(* Preconditions *)

CallReturned(op) == call.op = op /\ call.state = "returned"

\* The call raised and returned no object
Failed(result) == result.raised # "none" /\ "value" \notin DOMAIN result

\* C22: a Sphere of negative radius, Vec3.versor and the component get and
\* set with an index outside 0..2, and from_two with a malformed pair of
\* axis labels raise an error and return nothing; a failed component set
\* leaves the vector as it was.
C22_PreconditionsFailFast ==
    /\ (CallReturned("Sphere.__init__") /\ call.radius < 0)
          => Failed(call.result)
    /\ (CallReturned("Vec3.versor") /\ call.index \notin 0..2)
          => Failed(call.result)
    /\ (CallReturned("Vec3.__getitem__") /\ call.index \notin 0..2)
          => Failed(call.result) /\ call.after = call.vec
    /\ (CallReturned("Vec3.__setitem__") /\ call.index \notin 0..2)
          => Failed(call.result) /\ call.after = call.vec
    /\ (/\ CallReturned("OrthonormalBasis.from_two")
        /\ \/ Len(call.axes) # 2
           \/ \E i \in DOMAIN call.axes : call.axes[i] \notin AxisNames
           \/ \E i, j \in DOMAIN call.axes : i # j /\ call.axes[i] = call.axes[j])
          => Failed(call.result)

\* vec[-1] = 7 was refused on a vector whose last component is not 7
C22_Witness ==
    /\ CallReturned("Vec3.__setitem__")
    /\ call.index = -1
    /\ call.val = 7
    /\ call.vec = <<1, 5, 9>>
    /\ call.result.raised = "AssertionError"


----------------------------------------------------------------------------
(* Material.sample and its radiance sampler *)

SamplerOp == call.op = "Material.sample(radiance_sampler)"

\* C23: a call of sample invokes the radiance sampler exactly once, with a
\* ray that starts at the hit position; the specular branch returns the
\* radiance of the sampler as it is, the diffuse branch returns it multiplied
\* component by component with the diffuse colour, and the emission of the
\* material is added in neither.
C23_SamplerOnceAndUnmodified ==
    /\ (SamplerOp /\ call.state = "pending") => Len(call.invoked) = 0
    /\ (SamplerOp /\ call.state \in {"sampling", "returned"})
          => /\ Len(call.invoked) = 1
             /\ call.invoked[1].origin = call.hit_record.position
    /\ (SamplerOp /\ call.state = "returned")
          => /\ call.branch = "specular" => call.result = call.radiance
             /\ call.branch = "diffuse"
                  => call.result = <<call.material_data.diffuse[1] * call.radiance[1],
                                     call.material_data.diffuse[2] * call.radiance[2],
                                     call.material_data.diffuse[3] * call.radiance[3]>>
             /\ call.branch \in {"specular", "diffuse"}

\* The specular branch of an emitting matte material has returned the
\* radiance (1, 1, 2) of its sampler
C23_Witness ==
    /\ SamplerOp
    /\ call.state = "returned"
    /\ call.material_data.reflectivity < 0
    /\ call.material_data.emission # Vec3Zero
    /\ call.branch = "specular"
    /\ call.radiance = <<1, 1, 2>>
    /\ call.result = <<1, 1, 2>>


----------------------------------------------------------------------------
(* Handedness of the bases *)

\* x_axis cross y_axis = z_axis
RightHanded(basis) == FSame(FCross(basis.x_axis, basis.y_axis), basis.z_axis)

\* C24: every basis made by from_two (for each of the six axis pairs, the
\* camera basis from_two('zy', view direction, up) included) and by
\* from_z_axis is right-handed.
C24_RightHanded ==
    /\ (/\ FromTwoDone
        /\ call.axes \in DOMAIN THIRD_AXE
        /\ Independent(call.first, call.second))
          => RightHanded(call.result.value)
    /\ (/\ CallReturned("OrthonormalBasis.from_z_axis")
        /\ FIsUnit(call.z_axis))
          => RightHanded(call.result.value)
    /\ (/\ CallReturned("Camera.__init__")
        /\ Independent(FNormalised(FVec(VSub(call.look_at, call.eye))), call.up))
          => RightHanded(call.result.value)

----------------------------------------------------------------------------
(* Degenerate geometry *)

\* The determinant of Triangle.intersect: 0 for a ray parallel to the plane
\* of the triangle (and for a triangle without area)
TriangleDet(vertices, ray) ==
    Dot(face_u(vertices), Cross(ray.direction, face_v(vertices)))

\* The centre of the sphere lies on the ray, ahead of its origin
CentreOnRay(sph, ray) == AimedAtCentre(sph, ray)

\* C25: degenerate geometry is no intersection, never a hit with an undefined
\* normal: Triangle.intersect returns None for a ray parallel to the plane of
\* the triangle, Sphere.intersect returns None for a negative discriminant
\* and returns no hit record for a sphere of radius zero whose centre lies
\* on the ray.
C25_DegenerateIsNoHit ==
    /\ (TriangleReturned /\ TriangleDet(call.vertices, call.ray) = 0)
          => ~call.result.hit
    /\ (SphereReturned /\ SphereDiscr(call.sphere, call.ray) < 0)
          => ~call.result.hit
    /\ (SphereReturned /\ call.sphere.radius = 0 /\ CentreOnRay(call.sphere, call.ray))
          => ~call.result.hit
    /\ ((SphereReturned \/ TriangleReturned) /\ call.result.hit)
          => ~IsNan(call.result.normal)


----------------------------------------------------------------------------
(* The scene during a render *)

\* C26: rendering only reads the scene: no step of render or radiance (hit,
\* miss, preview and depth-limit paths, specular and diffuse branches)
\* changes the environment colour, the list of primitives or any field of
\* the material data, although radiance returns the environment colour and
\* the preview colour by reference and accumulates with +=.
C26_SceneReadOnly == [][scene' = scene]_vars

\* A sampling loop has added the environment colour object itself (returned
\* by reference through a specular sample) to its result, and the result now
\* holds a colour
C26_Witness ==
    \E i \in DOMAIN frames :
        /\ \E j \in DOMAIN frames[i].added : frames[i].added[j] = EnvRef
        /\ scene.environment_colour # Vec3Zero
        /\ frames[i].result.obj = "temp"
        /\ heap[frames[i].result.at] # Vec3Zero


----------------------------------------------------------------------------
(* Vec3 as a value *)

\* C27: every operation that returns a vector (+a, -a, a + b, a - b, a * s,
\* a * b, a / s, a / b, copy, cross, reflect, normalised) returns one with
\* storage of its own, so changing the result in place changes no operand;
\* an in-place operator on a changes a only.
C27_ValueSemantics ==
    /\ (call.op = "Vec3" /\ call.state = "mutated")
          => /\ heap[1] = call.a
             /\ heap[2] = call.b
    /\ (call.op = "Vec3" /\ call.state = "assigned")
          => heap[2] = call.b


----------------------------------------------------------------------------
(* The order of the random draws of a ray *)

DrawsRunning == call.op \in {"Camera.get_ray", "Renderer.radiance"}

\* The labels of the draws get_ray is to make for a camera
CameraLabels(camera) ==
    IF camera.aperture_radius = 0 THEN <<"jitter_x", "jitter_y">>
    ELSE <<"jitter_x", "jitter_y", "aperture_angle", "aperture_radius">>

\* C28: get_ray draws the jitter of x, then that of y, then the aperture
\* angle and the aperture radius only when aperture_radius is not 0 (two
\* draws and the eye position as origin when it is 0, four otherwise);
\* radiance then draws, for each sub-sample in turn, the u offset, the v
\* offset and the branch probability, before the material is sampled for that
\* sub-sample and before any draw of the next sub-sample.
C28_DrawOrder ==
    DrawsRunning =>
        LET log == call.log
            expected == CameraLabels(call.camera)
        IN  /\ \A i \in DOMAIN log :
                   IF i <= Len(expected)
                   THEN log[i] = [kind |-> "draw", label |-> expected[i], id |-> 0,
                                  cell |-> 0]
                   ELSE log[i].id # 0
            /\ call.op = "Camera.get_ray" => Len(log) <= Len(expected)
            /\ call.op = "Renderer.radiance"
                 => /\ Len(log) >= Len(expected)
                    /\ call.camera.aperture_radius = 0
                         => call.origin = call.camera.position
            /\ \A i \in DOMAIN log :
                   (i > 1 /\ log[i].id # 0) =>
                       LET e == log[i]
                           before == [kind |-> "draw", id |-> e.id, cell |-> e.cell,
                                      label |-> CASE e.label = "v_offset" -> "u_offset"
                                                  [] e.label = "prob" -> "v_offset"
                                                  [] OTHER -> "prob"]
                       IN  /\ e.label \in {"u_offset", "v_offset", "prob", "material.sample"}
                           /\ e.label # "u_offset" => log[i - 1] = before
                           /\ e.label = "u_offset" =>
                                 /\ \A j \in 1..(i - 1) : log[j] # e
                                 /\ e.cell > 1 =>
                                       \E j \in 1..(i - 1) :
                                           log[j] = [kind |-> "sample",
                                                     label |-> "material.sample",
                                                     id |-> e.id, cell |-> e.cell - 1]

\* A ray cast through an aperture, from a point of the lens other than the
\* eye position, whose call of radiance has sampled the material for two
\* sub-samples
C28_Witness ==
    /\ call.op = "Renderer.radiance"
    /\ call.camera.aperture_radius # 0
    /\ call.origin # call.camera.position
    /\ Len(call.log) = 12
    /\ call.log[8] = [kind |-> "sample", label |-> "material.sample", id |-> 1,
                      cell |-> 1]
    /\ call.log[12] = [kind |-> "sample", label |-> "material.sample", id |-> 1,
                       cell |-> 2]

----------------------------------------------------------------------------
(* generate_tiles without image size *)

\* The arguments with a width or height left at -1 replaced by the width and
\* height of the parameters of the renderer
WithDefaults(a, p) ==
    [a EXCEPT !.width = IF @ < 0 THEN p.width ELSE @,
              !.height = IF @ < 0 THEN p.height ELSE @]

\* C29: generate_tiles called without image width or height uses
\* params['width'] and params['height'] and returns, without error, the tiles
\* of the call that passes them; in every case it leaves the parameters and
\* the scene of the renderer as they were.
C29_DefaultsUseParams ==
    tpc # "idle" =>
        /\ params = DEFAULT_RENDERER_PARAMS
        /\ scene = SphereScene
        /\ (targs.width < 0 \/ targs.height < 0) =>
              /\ raised = "none"
              /\ tpc = "done"
              /\ tiles = Sorted(UnsortedTiles(WithDefaults(targs, params)))


====
